---- MODULE Spec2Model ----
(***************************************************************************)
(* Dashboard Financeiro 2026: the data layer (src/src/data_loader.py), the *)
(* analytics engine (src/src/analytics_engine.py) and the dashboard        *)
(* callback that drives them (src/app.py).                                 *)
(*                                                                         *)
(* Amounts are whole numbers of a unit of account (Valor is a float64     *)
(* column).  Every float the engine derives from them by division (rates,  *)
(* percentages) is kept as an exact fraction [num, den] with den > 0, in   *)
(* lowest terms.                                                           *)
(* A pandas table is a sequence of rows (records), in index order.         *)
(* Python's None is the empty sequence <<>>; a present value x is <<x>>.   *)
(***************************************************************************)
EXTENDS Integers, Sequences, FiniteSets, TLC

VARIABLES
    file_exists,    \* whether there is a file at DataLoader.filepath
    gpu_available,  \* DataLoader.gpu_available: whether cuDF could be imported
    filtered,       \* what DataLoader.filter_data returned last (None: nothing yet)
    load_outcome,   \* how DataLoader.load ended last (None: not called)
    file,       \* rows of the CSV at DataLoader.filepath, in file order
    _df,        \* DataLoader._df: None, or the cached table
    df,         \* app.py module-level df: None before start-up, then the base table
    engine_df,  \* AnalyticsEngine.df of the engine built last (None: no engine yet)
    kpis,       \* what that engine's get_kpis() returned (None: not called)
    alertas,    \* what that engine's get_alertas() returned (None: not called)
    anomalias,  \* what its detectar_anomalias(threshold) returned (None: not called)
    previsao,   \* what its prever_proximos_dias(dias) returned (None: not called)
    insights,   \* what its generate_insights() returned (None: not called)
    trend,      \* what its get_tendencia() returned (None: not called)
    loading,    \* the load() that is between two of its steps (None: no such load)
    reader_df,  \* the table a concurrent reader got last (None: nothing yet)
    _data_loader \* data_loader._data_loader: None, or the singleton DataLoader

vars == <<file_exists, gpu_available, filtered, load_outcome, file, _df, df, engine_df, kpis, alertas, anomalias, previsao, insights, trend, loading, reader_df, _data_loader>>

----------------------------------------------------------------------------
(* Bounds of the model *)

\* most rows of a CSV handed to the loader and dashboard
MaxRows == 3
\* most copies of one row in a CSV handed to the engine
MaxRepeat == 5
\* most rows of a CSV of any rows handed to detectar_anomalias
MaxAnomalyRows == 4
\* most copies of one row in a CSV handed to detectar_anomalias
MaxAnomalyRepeat == 4
\* most rows of a CSV handed to prever_proximos_dias
MaxForecastRows == 2
\* most rows of a CSV that is replaced between the loads
MaxReplacedRows == 2
\* most rows of a CSV whose rows have defects
MaxDefectRows == 2
\* most rows of a CSV handed to the engine whose every operation is called
MaxAnalyticsRows == 2
\* most rows of a CSV of a three-day ledger
MaxLedgerRows == 3
\* transactions at most in the one category of the anomaly detection's default
MaxCategoryRows == 6

----------------------------------------------------------------------------
(* Values *)

None == <<>>
Some(x) == <<x>>

\* a missing CSV cell (pandas NaN)
NaN == "NaN"

Abs(x) == IF x < 0 THEN -x ELSE x

RECURSIVE GCD(_, _)
GCD(a, b) == IF b = 0 THEN a ELSE GCD(b, a % b)

\* the float n / d as an exact fraction in lowest terms; a division by zero
\* gives inf or nan (numpy raises nothing), kept as a fraction of den 0
Rat(n, d) ==
    IF d = 0 THEN [num |-> n, den |-> 0]
    ELSE LET s == IF d < 0 THEN -1 ELSE 1
             g == GCD(Abs(n), Abs(d))
         IN  [num |-> (s * n) \div g, den |-> (s * d) \div g]

RInt(n) == [num |-> n, den |-> 1]
RLt(a, b) == a.num * b.den < b.num * a.den
REq(a, b) == a.num * b.den = b.num * a.den
RSub(a, b) == Rat(a.num * b.den - b.num * a.den, a.den * b.den)
RNeg(a) == [num |-> -a.num, den |-> a.den]
RDivInt(a, k) == Rat(a.num, a.den * k)
RAdd(a, b) == Rat(a.num * b.den + b.num * a.den, a.den * b.den)
RMulInt(a, k) == Rat(a.num * k, a.den)

RECURSIVE SumValor(_)
\* df['Valor'].sum(): 0 for an empty selection
SumValor(rows) ==
    IF rows = <<>> THEN 0 ELSE Head(rows).Valor + SumValor(Tail(rows))

----------------------------------------------------------------------------
(* The CSV: raw rows *)

\* the text default of _clean_data
NaoInformado == "Não Informado"

\* a date cell that holds no date; dates are day numbers 1, 2, ...
NaT == 0
\* a date cell whose text read_csv cannot parse as a date
Unparsable == -1

Dates == {1, 2}
Categorias == {"Gasolina", "Salário"}
Tipos == {"Entrada", "Saída", "Dívida", "Dívida Parcial"}
Pagos == {"Pago", "Não Pago"}
Valores == {50, 400, 1000}

\* config.CATEGORIAS_MAP: category code -> name, colour, icon (the icon by name)
CATEGORIAS_MAP ==
    (8888 :> [nome |-> "Gasolina", cor |-> "#F59E0B", icone |-> "fuel pump"])
    @@ (2222 :> [nome |-> "Gasto Pessoal", cor |-> "#EF4444", icone |-> "shopping cart"])
    @@ (9999 :> [nome |-> "Investimento", cor |-> "#10B981", icone |-> "money bag"])
    @@ (3333 :> [nome |-> "Salário", cor |-> "#3B82F6", icone |-> "briefcase"])
    @@ (4444 :> [nome |-> "Uber Driver", cor |-> "#8B5CF6", icone |-> "automobile"])
    @@ (1211 :> [nome |-> "Pedágio", cor |-> "#EC4899", icone |-> "motorway"])
    @@ (1411 :> [nome |-> "Manutenção", cor |-> "#F97316", icone |-> "wrench"])
    @@ (5555 :> [nome |-> "Imposto", cor |-> "#DC2626", icone |-> "clipboard"])
    @@ (1311 :> [nome |-> "Lalamove", cor |-> "#14B8A6", icone |-> "package"])

\* the Codigo cell the files of the model write next to a Categoria cell
CodigoDe(categoria) == IF categoria = "Salário" THEN Some(3333) ELSE Some(8888)

\* a CSV line of separators only: every cell missing
EmptyRow ==
    [Data |-> NaT, Categoria |-> NaN, Codigo |-> None, Tipo |-> NaN,
     Pago_ou_nao_pago |-> NaN, Valor |-> None]

\* Valor is None for a missing or non-numeric cell, Some(v) for the number v;
\* Codigo is None for a missing cell, Some(k) for the integer k
RawRows ==
    {r \in [Data : Dates, Categoria : Categorias, Codigo : {Some(8888), Some(3333)},
            Tipo : Tipos \cup {NaN}, Pago_ou_nao_pago : Pagos,
            Valor : {None} \cup {Some(v) : v \in Valores}] :
        r.Codigo = CodigoDe(r.Categoria)}
    \cup {EmptyRow}

----------------------------------------------------------------------------
(* DataLoader._clean_data *)

IsAllNaN(r) ==
    /\ r.Data = NaT
    /\ r.Categoria = NaN
    /\ r.Codigo = None
    /\ r.Tipo = NaN
    /\ r.Pago_ou_nao_pago = NaN
    /\ r.Valor = None

\* df.dropna(how='all')
dropna_all(rows) == LET Keep(r) == ~IsAllNaN(r) IN SelectSeq(rows, Keep)

\* pd.to_numeric(cell, errors='coerce') then .fillna(0)
to_numeric_fillna(cell) == IF cell = None THEN 0 ELSE cell[1]

\* fillna gone wrong: the missing cell left as it is
fillna_text_skipped(cell) == cell

\* df[col].fillna('Não Informado') on a text cell
fillna_text(cell) == IF cell = NaN THEN NaoInformado ELSE cell

\* df['Codigo'].astype(int) on a cell that holds a code
astype_int(cell) == cell[1]

clean_row(r) ==
    [Data |-> r.Data,
     Categoria |-> fillna_text(r.Categoria),
     Codigo |-> astype_int(r.Codigo),
     Tipo |-> fillna_text(r.Tipo),
     Pago_ou_nao_pago |-> fillna_text(r.Pago_ou_nao_pago),
     Valor |-> to_numeric_fillna(r.Valor)]

\* s without its element at position i
RemoveAt(s, i) == SubSeq(s, 1, i - 1) \o SubSeq(s, i + 1, Len(s))

MinData(rows) ==
    CHOOSE d \in {rows[i].Data : i \in DOMAIN rows} :
        \A j \in DOMAIN rows : d <= rows[j].Data

\* position of the first row equal to r
FirstIndexOf(rows, r) ==
    CHOOSE i \in DOMAIN rows :
        rows[i] = r /\ \A j \in 1..(i - 1) : rows[j] # r

RECURSIVE sort_values_Data(_)
\* df.sort_values('Data').reset_index(drop=True), kind='quicksort' (the pandas
\* default), which orders by date and promises nothing about rows of one
\* date: every date-ordered arrangement of the rows is a possible result.
sort_values_Data(rows) ==
    IF rows = <<>> THEN {<<>>}
    ELSE LET m == MinData(rows)
             firsts == {rows[i] : i \in {j \in DOMAIN rows : rows[j].Data = m}}
         IN  UNION {{<<r>> \o rest :
                        rest \in sort_values_Data(RemoveAt(rows, FirstIndexOf(rows, r)))} :
                    r \in firsts}

\* the tables _clean_data can return for the raw rows: none when a kept row
\* has no Codigo, as astype(int) raises on a column that holds a NaN
_clean_data(rows) ==
    LET kept == dropna_all(rows)
        cleaned == [i \in DOMAIN kept |-> clean_row(kept[i])]
    IN  IF \E i \in DOMAIN kept : kept[i].Codigo = None THEN {}
        ELSE sort_values_Data(cleaned)

----------------------------------------------------------------------------
(* DataLoader._add_calculated_columns *)

\* ValorComSinal gone wrong: the sign read from TIPOS_TRANSACAO (config.py), where
\* both debt kinds have sinal 0
ValorComSinal_TIPOS_TRANSACAO(r) ==
    IF r.Tipo = "Entrada" THEN r.Valor
    ELSE IF r.Tipo \in {"Dívida", "Dívida Parcial"} THEN 0
    ELSE r.Valor * (-1)

\* df['ValorComSinal']: Valor * -1, overwritten by Valor where Tipo is Entrada
ValorComSinal(r) == IF r.Tipo = "Entrada" THEN r.Valor ELSE r.Valor * (-1)

\* cumsum gone wrong: every row gets its own signed amount, nothing carried
cumsum_no_carry(s, acc) == [i \in DOMAIN s |-> acc + s[i]]

RECURSIVE cumsum(_, _)
\* Series.cumsum(): the running sums of the integer sequence s, from acc
cumsum(s, acc) ==
    IF s = <<>> THEN <<>>
    ELSE <<acc + Head(s)>> \o cumsum(Tail(s), acc + Head(s))

\* CATEGORIAS_MAP.get(x, {}).get(key, default)
CATEGORIAS_MAP_get(x, key, default) ==
    IF x \in DOMAIN CATEGORIAS_MAP THEN CATEGORIAS_MAP[x][key] ELSE default

\* df['CategoriaDisplay']: f"{icone} {nome}", kept as the pair
CategoriaDisplay(x) ==
    <<CATEGORIAS_MAP_get(x, "icone", "pushpin"), CATEGORIAS_MAP_get(x, "nome", "Outros")>>

\* df['CategoriaCor']
CategoriaCor(x) == CATEGORIAS_MAP_get(x, "cor", "#6B7280")

\* the derived columns the model follows; the calendar columns, the boolean
\* columns and ValorAbsoluto are left out
_add_calculated_columns(rows) ==
    LET signed == [i \in DOMAIN rows |-> ValorComSinal(rows[i])]
        saldo == cumsum(signed, 0)
    IN  [i \in DOMAIN rows |->
            [Data |-> rows[i].Data,
             Categoria |-> rows[i].Categoria,
             Codigo |-> rows[i].Codigo,
             CategoriaDisplay |-> CategoriaDisplay(rows[i].Codigo),
             CategoriaCor |-> CategoriaCor(rows[i].Codigo),
             Tipo |-> rows[i].Tipo,
             Pago_ou_nao_pago |-> rows[i].Pago_ou_nao_pago,
             Valor |-> rows[i].Valor,
             ValorComSinal |-> signed[i],
             SaldoAcumulado |-> saldo[i]]]

----------------------------------------------------------------------------
(* AnalyticsEngine: KPIs *)

\* df[df[col] == v] and df[df[col].isin(vs)], rows kept in order
where_Tipo_in(rows, vs) == LET T(r) == r.Tipo \in vs IN SelectSeq(rows, T)
where_Pago_eq(rows, v) == LET T(r) == r.Pago_ou_nao_pago = v IN SelectSeq(rows, T)
where_Categoria_eq(rows, v) == LET T(r) == r.Categoria = v IN SelectSeq(rows, T)

ColData(rows) == {rows[i].Data : i \in DOMAIN rows}
MaxData(rows) == CHOOSE d \in ColData(rows) : \A e \in ColData(rows) : e <= d

\* MetricResult(valor, variacao=None, variacao_pct=None, tendencia=None, cor=None)
MetricResult(valor, variacao_pct, tendencia, cor) ==
    [valor |-> valor, variacao |-> None, variacao_pct |-> variacao_pct,
     tendencia |-> tendencia, cor |-> cor]

\* _calcular_variacao_periodo gone wrong: neither the empty-table return nor the
\* periodo_1 > 0 guard
_calcular_variacao_periodo_unguarded(rows, tipo) ==
    LET twice_mid == MinData(rows) + MaxData(rows)
        P1(r) == 2 * r.Data < twice_mid /\ r.Tipo = tipo
        P2(r) == 2 * r.Data >= twice_mid /\ r.Tipo = tipo
        periodo_1 == SumValor(SelectSeq(rows, P1))
        periodo_2 == SumValor(SelectSeq(rows, P2))
    IN  [variacao |-> RInt(periodo_2 - periodo_1),
         variacao_pct |-> Rat((periodo_2 - periodo_1) * 100, periodo_1)]

\* _calcular_variacao_periodo gone wrong: the row of the midpoint counted in
\* the first period
_calcular_variacao_periodo_le(rows, tipo) ==
    IF Len(rows) = 0 THEN [variacao |-> RInt(0), variacao_pct |-> RInt(0)]
    ELSE LET twice_mid == MinData(rows) + MaxData(rows)
             P1(r) == 2 * r.Data <= twice_mid /\ r.Tipo = tipo
             P2(r) == 2 * r.Data > twice_mid /\ r.Tipo = tipo
             periodo_1 == SumValor(SelectSeq(rows, P1))
             periodo_2 == SumValor(SelectSeq(rows, P2))
             variacao == periodo_2 - periodo_1
         IN  [variacao |-> RInt(variacao),
              variacao_pct |-> IF periodo_1 > 0
                               THEN Rat(variacao * 100, periodo_1)
                               ELSE RInt(0)]

\* mid_date = min + (max - min) / 2, so Data < mid_date iff 2 * Data < min + max
_calcular_variacao_periodo(rows, tipo) ==
    IF Len(rows) = 0 THEN [variacao |-> RInt(0), variacao_pct |-> RInt(0)]
    ELSE LET twice_mid == MinData(rows) + MaxData(rows)
             P1(r) == 2 * r.Data < twice_mid /\ r.Tipo = tipo
             P2(r) == 2 * r.Data >= twice_mid /\ r.Tipo = tipo
             periodo_1 == SumValor(SelectSeq(rows, P1))
             periodo_2 == SumValor(SelectSeq(rows, P2))
             variacao == periodo_2 - periodo_1
         IN  [variacao |-> RInt(variacao),
              variacao_pct |-> IF periodo_1 > 0
                               THEN Rat(variacao * 100, periodo_1)
                               ELSE RInt(0)]

_determinar_tendencia(valor) ==
    IF RLt(RInt(5), valor) THEN "alta"
    ELSE IF RLt(valor, RInt(-5)) THEN "baixa"
    ELSE "estavel"

\* df[df['Tipo'] == 'Entrada']['Valor'].sum()
total_receitas(rows) == SumValor(where_Tipo_in(rows, {"Entrada"}))

\* total_despesas gone wrong: the debt kinds counted as expenses, as EhDespesa does
total_despesas_with_debts(rows) ==
    SumValor(where_Tipo_in(rows, {"Saída", "Dívida", "Dívida Parcial"}))

\* df[df['Tipo'].isin(['Saída'])]['Valor'].sum()
total_despesas(rows) == SumValor(where_Tipo_in(rows, {"Saída"}))

\* df[df['Tipo'].isin(['Dívida', 'Dívida Parcial'])]['Valor'].sum()
total_dividas(rows) == SumValor(where_Tipo_in(rows, {"Dívida", "Dívida Parcial"}))

\* dividas_pendentes gone wrong: only the unpaid rows of a debt kind
dividas_pendentes_debt_kinds(rows) ==
    SumValor(where_Pago_eq(where_Tipo_in(rows, {"Dívida", "Dívida Parcial"}), "Não Pago"))

\* df[df['Pago_ou_nao_pago'] == 'Não Pago']['Valor'].sum()
dividas_pendentes(rows) == SumValor(where_Pago_eq(rows, "Não Pago"))

\* taxa_economia gone wrong: the division without its guard
taxa_economia_unguarded(rows) ==
    Rat((total_receitas(rows) - total_despesas(rows)) * 100, total_receitas(rows))

\* ((total_receitas - total_despesas) / total_receitas * 100) if total_receitas > 0 else 0
taxa_economia(rows) ==
    IF total_receitas(rows) > 0
    THEN Rat((total_receitas(rows) - total_despesas(rows)) * 100, total_receitas(rows))
    ELSE RInt(0)

get_kpis(rows) ==
    LET saldo == total_receitas(rows) - total_despesas(rows)
        taxa == taxa_economia(rows)
        var_receitas == _calcular_variacao_periodo(rows, "Entrada")
        var_despesas == _calcular_variacao_periodo(rows, "Saída")
    IN  [saldo_total |->
            MetricResult(RInt(saldo), Some(var_receitas.variacao_pct),
                         Some(_determinar_tendencia(var_receitas.variacao_pct)),
                         Some(IF saldo >= 0 THEN "#10B981" ELSE "#EF4444")),
         receitas |->
            MetricResult(RInt(total_receitas(rows)), Some(var_receitas.variacao_pct),
                         Some(_determinar_tendencia(var_receitas.variacao_pct)),
                         Some("#10B981")),
         despesas |->
            MetricResult(RInt(total_despesas(rows)), Some(var_despesas.variacao_pct),
                         Some(_determinar_tendencia(RNeg(var_despesas.variacao_pct))),
                         Some("#EF4444")),
         balanco |->
            MetricResult(RInt(saldo),
                         Some(RDivInt(RSub(var_receitas.variacao_pct,
                                           var_despesas.variacao_pct), 2)),
                         Some(_determinar_tendencia(RInt(saldo))),
                         Some("#3B82F6")),
         dividas_pendentes |->
            MetricResult(RInt(dividas_pendentes(rows)), None, None,
                         Some(IF dividas_pendentes(rows) > 0 THEN "#F59E0B" ELSE "#10B981")),
         taxa_economia |->
            MetricResult(taxa, None,
                         Some(IF ~RLt(taxa, RInt(20)) THEN "alta" ELSE "baixa"),
                         Some(IF ~RLt(taxa, RInt(20)) THEN "#10B981" ELSE "#EF4444")),
         total_dividas |->
            MetricResult(RInt(total_dividas(rows)), None, None, Some("#F97316"))]

----------------------------------------------------------------------------
(* AnalyticsEngine: anomalies *)

RECURSIVE unique_Categoria(_, _)
\* df['Categoria'].unique(): the distinct values in order of first appearance
unique_Categoria(rows, seen) ==
    IF rows = <<>> THEN <<>>
    ELSE IF Head(rows).Categoria \in seen THEN unique_Categoria(Tail(rows), seen)
    ELSE <<Head(rows).Categoria>>
         \o unique_Categoria(Tail(rows), seen \cup {Head(rows).Categoria})

RECURSIVE SumSq(_)
SumSq(s) == IF s = <<>> THEN 0 ELSE Head(s) * Head(s) + SumSq(Tail(s))

\* With n rows of sum S in cat_df, dev[i] = n * Valor[i] - S.  Then
\*   Valor[i] - media = dev[i] / n,
\*   std ^ 2 (sample, ddof = 1) = SumSq(dev) / (n ^ 2 * (n - 1)),
\*   zscore[i] ^ 2 = dev[i] ^ 2 * (n - 1) / SumSq(dev), with the sign of dev[i].
deviations(cat_df) ==
    [i \in DOMAIN cat_df |-> Len(cat_df) * cat_df[i].Valor - SumValor(cat_df)]

\* Valor is a float64 column.  On n equal amounts v, mean() is sum / n in
\* float64: exactly v for some amounts (100.0 three times), one rounding away
\* from v for others (0.1 three times gives 0.10000000000000002).  err is
\* that rounding: 0 when media = v, -1 when media < v, 1 when media > v.
\* On amounts that are not all equal the rounding is far below the
\* deviations and is left out.
Roundings == {-1, 0, 1}

\* std > 0: std() squares the distances to the same rounded mean
std_positive(cat_df, err) == SumSq(deviations(cat_df)) > 0 \/ err # 0

\* zscore gone wrong: the population standard deviation (ddof = 0) for the
\* sample one
zscore_ddof0(cat_df, i, err) ==
    LET dev == deviations(cat_df)
        n == Len(cat_df)
    IN  IF SumSq(dev) > 0
        THEN [sgn |-> IF dev[i] < 0 THEN -1 ELSE IF dev[i] > 0 THEN 1 ELSE 0,
              sq |-> Rat(dev[i] * dev[i] * n, SumSq(dev))]
        ELSE [sgn |-> -err, sq |-> RInt(1)]

\* the zscore column: sgn is the sign, sq the square of the z-score.  On n
\* equal amounts with media off by the rounding e, every Valor - media is -e
\* and std is |e| * sqrt(n / (n - 1)).
zscore(cat_df, i, err) ==
    LET dev == deviations(cat_df)
        n == Len(cat_df)
    IN  IF SumSq(dev) > 0
        THEN [sgn |-> IF dev[i] < 0 THEN -1 ELSE IF dev[i] > 0 THEN 1 ELSE 0,
              sq |-> Rat(dev[i] * dev[i] * (n - 1), SumSq(dev))]
        ELSE [sgn |-> -err, sq |-> Rat(n - 1, n)]

\* abs(zscore) > threshold, for a threshold >= 0 given as a fraction
abs_zscore_gt(z, threshold) ==
    z.sq.num * threshold.den * threshold.den > threshold.num * threshold.num * z.sq.den

\* cat_df[abs(cat_df['zscore']) > threshold], each row with its zscore
anomalias_cat(cat_df, threshold, err) ==
    LET withz == [i \in DOMAIN cat_df |->
                    [row |-> cat_df[i], zscore |-> zscore(cat_df, i, err)]]
        Flag(x) == abs_zscore_gt(x.zscore, threshold)
    IN  SelectSeq(withz, Flag)

RECURSIVE anomalias_concat(_, _, _, _)
\* pd.concat(anomalias): the flagged rows of every category of at least 3 rows
\* and std > 0, categories in order of first appearance
anomalias_concat(rows, cats, threshold, err) ==
    IF cats = <<>> THEN <<>>
    ELSE LET cat_df == where_Categoria_eq(rows, Head(cats))
             here == IF Len(cat_df) < 3 THEN <<>>
                     ELSE IF std_positive(cat_df, err)
                          THEN anomalias_cat(cat_df, threshold, err)
                     ELSE <<>>
         IN  here \o anomalias_concat(rows, Tail(cats), threshold, err)

\* zscore a < zscore b
zscore_lt(a, b) ==
    IF a.sgn # b.sgn THEN a.sgn < b.sgn
    ELSE IF a.sgn = 1 THEN RLt(a.sq, b.sq)
    ELSE IF a.sgn = -1 THEN RLt(b.sq, a.sq)
    ELSE FALSE

RECURSIVE sort_values_zscore(_)
\* sort_values('zscore', ascending=False), kind='quicksort': every arrangement
\* in descending zscore, rows of one zscore in any order
sort_values_zscore(xs) ==
    IF xs = <<>> THEN {<<>>}
    ELSE LET tops == {i \in DOMAIN xs :
                        \A j \in DOMAIN xs : ~zscore_lt(xs[i].zscore, xs[j].zscore)}
         IN  UNION {{<<xs[i]>> \o rest : rest \in sort_values_zscore(RemoveAt(xs, i))} :
                    i \in tops}

\* detectar_anomalias(threshold): the tables it can return, each row with its
\* zscore; pd.DataFrame() is the table of no rows
detectar_anomalias(rows, threshold, err) ==
    sort_values_zscore(anomalias_concat(rows, unique_Categoria(rows, {}), threshold, err))

\* self.df gone wrong: the zscore column written to the engine's own table
self_df_after_detectar_anomalias_in_place(rows) ==
    [i \in DOMAIN rows |-> [zscore |-> RInt(0)] @@ rows[i]]

\* self.df after detectar_anomalias: the zscore column is written to copies
\* (l.211, l.223), never to the engine's own table
self_df_after_detectar_anomalias(rows) == rows

\* the default threshold gone wrong: 1.5
DefaultThreshold_1_5 == [num |-> 3, den |-> 2]

\* the default threshold of detectar_anomalias, 2.0
DefaultThreshold == [num |-> 2, den |-> 1]

\* len(detectar_anomalias(threshold)) for a threshold >= 1: the number of
\* flagged rows.  The final sort keeps their number, and the rounding of
\* mean() cannot flag a row, as the zscore it leaves is below 1.
len_anomalias(rows, threshold) ==
    Len(anomalias_concat(rows, unique_Categoria(rows, {}), threshold, 0))

----------------------------------------------------------------------------
(* AnalyticsEngine: the daily series and the forecast *)

RECURSIVE SumSeq(_)
SumSeq(s) == IF s = <<>> THEN 0 ELSE Head(s) + SumSeq(Tail(s))

\* df['ValorComSinal'] as a sequence
ColValorComSinal(rows) == [i \in DOMAIN rows |-> rows[i].ValorComSinal]

\* get_serie_temporal('D'): one bucket for every calendar day from the first
\* date of the table to the last, days of no row included (their sums are 0),
\* and no bucket for a table of no rows.  A date is a day number.  The two
\* rolling means are left out: nothing reads them.
get_serie_temporal(rows) ==
    IF rows = <<>> THEN <<>>
    ELSE LET first == MinData(rows)
             OfDay(d) == LET T(r) == r.Data = d IN SelectSeq(rows, T)
             Fluxo == [k \in 1..(MaxData(rows) - first + 1) |->
                        SumSeq(ColValorComSinal(OfDay(first + k - 1)))]
             SaldoAcumulado == cumsum(Fluxo, 0)
         IN  [k \in DOMAIN Fluxo |->
                [Data |-> first + k - 1,
                 Total |-> SumValor(OfDay(first + k - 1)),
                 Fluxo |-> Fluxo[k],
                 Transacoes |-> Len(OfDay(first + k - 1)),
                 Receitas |-> SumValor(where_Tipo_in(OfDay(first + k - 1), {"Entrada"})),
                 Despesas |-> SumValor(where_Tipo_in(OfDay(first + k - 1), {"Saída"})),
                 SaldoAcumulado |-> SaldoAcumulado[k]]]

\* Series.tail(k): the last k elements, all of them when there are fewer
tail(s, k) == SubSeq(s, IF Len(s) > k THEN Len(s) - k + 1 ELSE 1, Len(s))

\* ts['Fluxo'].tail(30) gone wrong: the whole series
Fluxo_tail_30_whole(ts) == [k \in DOMAIN ts |-> ts[k].Fluxo]

\* ts['Fluxo'].tail(30)
Fluxo_tail_30(ts) == tail([k \in DOMAIN ts |-> ts[k].Fluxo], 30)

\* Series.mean() of the integers s
mean(s) == Rat(SumSeq(s), Len(s))

\* the square of Series.std() (sample, ddof = 1) of the integers s, Len(s) > 1:
\* with dev[i] = n * s[i] - sum, it is SumSq(dev) / (n ^ 2 * (n - 1))
std_squared(s) ==
    LET n == Len(s)
        dev == [i \in DOMAIN s |-> n * s[i] - SumSeq(s)]
    IN  Rat(SumSq(dev), n * n * (n - 1))

\* media + times * std, the float of a limit of the confidence interval: times
\* is in hundredths (-196 for - 1.96) and std is given by its square
Limite(media, times, std2) == [media |-> media, times |-> times, std2 |-> std2]

\* what prever_proximos_dias returns when the series is long enough
previsao_de(ts, dias) ==
    LET media_recente == mean(Fluxo_tail_30(ts))
        std2_recente == std_squared(Fluxo_tail_30(ts))
        ultimo_dia == ts[Len(ts)].Data
        inferior == Limite(media_recente, -196, std2_recente)
        superior == Limite(media_recente, 196, std2_recente)
        saldo_atual == ts[Len(ts)].SaldoAcumulado
    IN  [previsao_diaria |->
            [j \in 1..dias |-> [Data |-> ultimo_dia + j,
                                Previsto |-> media_recente,
                                LimiteInferior |-> inferior,
                                LimiteSuperior |-> superior]],
         media_diaria_prevista |-> media_recente,
         saldo_previsto_final |-> RAdd(RInt(saldo_atual), RMulInt(media_recente, dias)),
         intervalo_confianca |-> [inferior |-> inferior, superior |-> superior],
         confianca |-> 95]

\* the sentinel of prever_proximos_dias
DadosInsuficientes == [erro |-> "Dados insuficientes para previsão"]

\* prever_proximos_dias gone wrong: a series of 6 buckets accepted
prever_proximos_dias_lt_6(rows, dias) ==
    IF Len(get_serie_temporal(rows)) < 6 THEN DadosInsuficientes
    ELSE previsao_de(get_serie_temporal(rows), dias)

prever_proximos_dias(rows, dias) ==
    IF Len(get_serie_temporal(rows)) < 7 THEN DadosInsuficientes
    ELSE previsao_de(get_serie_temporal(rows), dias)

----------------------------------------------------------------------------
(* AnalyticsEngine: alerts *)

RECURSIVE Pow10(_)
Pow10(k) == IF k = 0 THEN 1 ELSE 10 * Pow10(k - 1)

\* f"{x:.kf}": x rounded to k decimals, ties to even; the text is the decimal
\* numeral of units / 10 ^ k
format_f(x, k) ==
    LET scaled == Abs(x.num) * Pow10(k)
        q == scaled \div x.den
        rem == scaled % x.den
        rounded == IF 2 * rem > x.den THEN q + 1
                   ELSE IF 2 * rem = x.den /\ q % 2 = 1 THEN q + 1
                   ELSE q
    IN  [decimals |-> k, units |-> IF x.num < 0 THEN -rounded ELSE rounded]

\* abs(x) of a fraction
RAbs(x) == [num |-> Abs(x.num), den |-> x.den]

\* one alert dict; args are the values formatted into titulo and mensagem, and
\* icone is the name of the emoji
Alerta(tipo, titulo, mensagem, args, prioridade, icone) ==
    [tipo |-> tipo, titulo |-> titulo, mensagem |-> mensagem, args |-> args,
     prioridade |-> prioridade, icone |-> icone]

\* {'alta': 0, 'media': 1, 'baixa': 2}.get(x['prioridade'], 3)
prioridade_rank(a) ==
    IF a.prioridade = "alta" THEN 0
    ELSE IF a.prioridade = "media" THEN 1
    ELSE IF a.prioridade = "baixa" THEN 2
    ELSE 3

\* the alerts of rank k, in list order
of_rank(as, k) == LET T(a) == prioridade_rank(a) = k IN SelectSeq(as, T)

\* the sort gone wrong: left out
sorted_by_prioridade_skipped(as) == as

\* the sort gone wrong: an unstable sort, which here turns each rank around
sorted_by_prioridade_unstable(as) ==
    LET rev == [i \in DOMAIN as |-> as[Len(as) + 1 - i]]
    IN  of_rank(rev, 0) \o of_rank(rev, 1) \o of_rank(rev, 2) \o of_rank(rev, 3)

\* sorted(alertas, key=rank): ascending rank; Python's sort is stable, so alerts
\* of one rank keep their list order
sorted_by_prioridade(as) ==
    of_rank(as, 0) \o of_rank(as, 1) \o of_rank(as, 2) \o of_rank(as, 3)

\* if kpis['dividas_pendentes'].valor > 0: alertas.append(...)
regra_dividas(k) ==
    IF RLt(RInt(0), k.dividas_pendentes.valor)
    THEN <<Alerta("warning", "Dívidas Pendentes",
                  "Você possui R$ {:,.2f} em dívidas não pagas.",
                  <<format_f(k.dividas_pendentes.valor, 2)>>, "alta", "warning-sign")>>
    ELSE <<>>

\* if kpis['taxa_economia'].valor < 20: alertas.append(...)
regra_taxa_economia(k) ==
    IF RLt(k.taxa_economia.valor, RInt(20))
    THEN <<Alerta("warning", "Taxa de Economia Baixa",
                  "Sua taxa de economia é de {:.1f}%. O ideal é acima de 20%.",
                  <<format_f(k.taxa_economia.valor, 1)>>, "media", "chart-decreasing")>>
    ELSE <<>>

\* if kpis['saldo_total'].valor < 0: alertas.append(...)
regra_saldo(k) ==
    IF RLt(k.saldo_total.valor, RInt(0))
    THEN <<Alerta("danger", "Saldo Negativo",
                  "Seu saldo está negativo em R$ {:,.2f}.",
                  <<format_f(RAbs(k.saldo_total.valor), 2)>>, "alta", "police-light")>>
    ELSE <<>>

\* anomalias = self.detectar_anomalias(); if len(anomalias) > 0: alertas.append(...)
regra_anomalias(rows) ==
    LET n_anomalias == len_anomalias(rows, DefaultThreshold)
    IN  IF n_anomalias > 0
        THEN <<Alerta("info", "{} Transações Atípicas",
                      "Algumas transações estão fora do padrão usual.",
                      <<format_f(RInt(n_anomalias), 0)>>, "baixa", "magnifying-glass")>>
        ELSE <<>>

\* if total_gastos > 0 and (gastos_gasolina / total_gastos) > 0.3: alertas.append(...)
regra_gasolina(rows) ==
    LET gastos_gasolina ==
            SumValor(where_Tipo_in(where_Categoria_eq(rows, "Gasolina"), {"Saída"}))
        total_gastos == SumValor(where_Tipo_in(rows, {"Saída"}))
    IN  IF total_gastos > 0 /\ RLt(Rat(3, 10), Rat(gastos_gasolina, total_gastos))
        THEN <<Alerta("info", "Alto Gasto com Combustível",
                      "Gastos com gasolina representam {:.1f}% das despesas.",
                      <<format_f(Rat(gastos_gasolina * 100, total_gastos), 1)>>,
                      "media", "fuel-pump")>>
        ELSE <<>>

\* the rules gone wrong: an if / elif chain, which stops at the first rule that fires
alertas_appended_elif(rows) ==
    LET k == get_kpis(rows)
    IN  IF regra_dividas(k) # <<>> THEN regra_dividas(k)
        ELSE IF regra_taxa_economia(k) # <<>> THEN regra_taxa_economia(k)
        ELSE IF regra_saldo(k) # <<>> THEN regra_saldo(k)
        ELSE IF regra_anomalias(rows) # <<>> THEN regra_anomalias(rows)
        ELSE regra_gasolina(rows)

\* the alertas list as the five rules build it, in rule order, before the sort
alertas_appended(rows) ==
    LET k == get_kpis(rows)
    IN  regra_dividas(k) \o regra_taxa_economia(k) \o regra_saldo(k)
        \o regra_anomalias(rows) \o regra_gasolina(rows)

get_alertas(rows) == sorted_by_prioridade(alertas_appended(rows))

\* one card of the dashboard: create_alert(a['tipo'], a['icone'], a['titulo'], a['mensagem'])
create_alert(a) ==
    [tipo |-> a.tipo, icone |-> a.icone, titulo |-> a.titulo, mensagem |-> a.mensagem,
     args |-> a.args]

\* the cards gone wrong: for a in alertas[:1]
alert_cards_first_1(as) ==
    [i \in 1..(IF Len(as) < 1 THEN Len(as) ELSE 1) |-> create_alert(as[i])]

\* alert_cards = [create_alert(...) for a in alertas[:3]]
alert_cards(as) ==
    [i \in 1..(IF Len(as) < 3 THEN Len(as) ELSE 3) |-> create_alert(as[i])]

----------------------------------------------------------------------------
(* AnalyticsEngine: ranking, trend and insights *)

\* Series.round(2) of a fraction: hundredths, ties to even; nan stays nan
round_2(x) == IF x.den = 0 THEN x ELSE format_f(x, 2)

\* one row of get_analise_categorias for the category cat: Total, Quantidade,
\* Fluxo and Participacao.  Media, DesvPadrao and Cor are left out: nothing
\* that the model follows reads them.
analise_categoria(rows, cat) ==
    [categoria |-> cat,
     Total |-> SumValor(where_Categoria_eq(rows, cat)),
     Quantidade |-> Len(where_Categoria_eq(rows, cat)),
     Fluxo |-> SumSeq(ColValorComSinal(where_Categoria_eq(rows, cat))),
     Participacao |-> round_2(Rat(SumValor(where_Categoria_eq(rows, cat)) * 100,
                                  SumValor(rows)))]

RECURSIVE sort_values_Total(_)
\* sort_values('Total', ascending=False), kind='quicksort': every arrangement
\* of the set of rows in descending Total, rows of one Total in any order
sort_values_Total(as) ==
    IF as = {} THEN {<<>>}
    ELSE UNION {{<<a>> \o rest : rest \in sort_values_Total(as \ {a})} :
                a \in {x \in as : \A y \in as : y.Total <= x.Total}}

\* get_analise_categorias(): the tables it can return, one row a category
get_analise_categorias(rows) ==
    sort_values_Total({analise_categoria(rows, rows[i].Categoria) : i \in DOMAIN rows})

\* get_ranking_categorias(top_n): the rankings it can return
get_ranking_categorias(rows, top_n) ==
    {[i \in 1..(IF Len(analise) < top_n THEN Len(analise) ELSE top_n) |->
        [posicao |-> i,
         categoria |-> analise[i].categoria,
         total |-> analise[i].Total,
         participacao |-> analise[i].Participacao,
         quantidade |-> analise[i].Quantidade]] :
     analise \in get_analise_categorias(rows)}

\* the slope np.polyfit(x, y, 1) fits to y over x = 0 .. n - 1, n >= 2: the
\* least-squares slope (n * Sxy - Sx * Sy) / (n * Sxx - Sx * Sx)
polyfit_slope(y) ==
    LET n == Len(y)
        Sx == SumSeq([i \in 1..n |-> i - 1])
        Sxx == SumSeq([i \in 1..n |-> (i - 1) * (i - 1)])
        Sxy == SumSeq([i \in 1..n |-> (i - 1) * y[i]])
    IN  Rat(n * Sxy - Sx * SumSeq(y), n * Sxx - Sx * Sx)

get_tendencia(rows) ==
    LET ts == get_serie_temporal(rows)
        slope == polyfit_slope([k \in DOMAIN ts |-> ts[k].Fluxo])
    IN  IF Len(ts) < 2 THEN [direcao |-> "insuficiente", forca |-> RInt(0)]
        ELSE [direcao |-> IF RLt(RInt(10), slope) THEN "alta_forte"
                          ELSE IF RLt(RInt(0), slope) THEN "alta_leve"
                          ELSE IF RLt(RInt(-10), slope) THEN "baixa_leve"
                          ELSE "baixa_forte",
              slope |-> slope,
              forca |-> RAbs(slope),
              previsao_proximos_dias |-> RMulInt(slope, 30)]

\* one insight dict; args are the values formatted into descricao, and icone
\* is the name of the emoji
Insight(icone, titulo, descricao, args, acao, prioridade) ==
    [icone |-> icone, titulo |-> titulo, descricao |-> descricao, args |-> args,
     acao |-> acao, prioridade |-> prioridade]

\* Insight 1: if ranking: ...
insight_maior_gasto(ranking) ==
    IF ranking # <<>>
    THEN <<Insight("money-with-wings", "Maior Despesa",
                   "Sua maior categoria de gastos é {} com R$ {:,.2f} ({}% do total).",
                   <<ranking[1].categoria, format_f(RInt(ranking[1].total), 2),
                     ranking[1].participacao>>,
                   "Revise estes gastos", "Alta")>>
    ELSE <<>>

\* Insight 2 gone wrong: the band's lower edge counted as critical
insight_economia_le(taxa) ==
    IF ~RLt(RInt(10), taxa)
    THEN <<Insight("chart-decreasing", "Economia Crítica",
                   "Sua taxa de economia está muito baixa ({:.1f}%). Tente reduzir desperdícios.",
                   <<format_f(taxa, 1)>>, "Corte gastos supérfluos", "Alta")>>
    ELSE IF RLt(RInt(30), taxa)
    THEN <<Insight("money-bag", "Ótima Economia",
                   "Parabéns! Você está economizando {:.1f}% da sua renda.",
                   <<format_f(taxa, 1)>>, "Invista o excedente", "Baixa")>>
    ELSE <<>>

\* Insight 2: if taxa < 10: ... elif taxa > 30: ...
insight_economia(taxa) ==
    IF RLt(taxa, RInt(10))
    THEN <<Insight("chart-decreasing", "Economia Crítica",
                   "Sua taxa de economia está muito baixa ({:.1f}%). Tente reduzir desperdícios.",
                   <<format_f(taxa, 1)>>, "Corte gastos supérfluos", "Alta")>>
    ELSE IF RLt(RInt(30), taxa)
    THEN <<Insight("money-bag", "Ótima Economia",
                   "Parabéns! Você está economizando {:.1f}% da sua renda.",
                   <<format_f(taxa, 1)>>, "Invista o excedente", "Baixa")>>
    ELSE <<>>

\* trend_map.get(trends['direcao'], 'Analisando tendência...')
trend_map(direcao) ==
    CASE direcao = "alta_forte" -> "Ganhos aumentando rapidamente"
      [] direcao = "alta_leve" -> "Ganhos em leve alta"
      [] direcao = "baixa_leve" -> "Gastos superando ganhos levemente"
      [] direcao = "baixa_forte" -> "Alerta: Tendência de queda no saldo"
      [] direcao = "estavel" -> "Finanças estáveis"
      [] direcao = "insuficiente" -> "Poucos dados para tendência"
      [] OTHER -> "Analisando tendência..."

\* Insight 3, appended always
insight_tendencia(trends) ==
    <<Insight(IF trends.direcao \in {"alta_forte", "alta_leve"}
              THEN "chart-increasing" ELSE "chart-decreasing",
              "Tendência Financeira", trend_map(trends.direcao), <<>>,
              "Acompanhe diariamente", "Media")>>

\* Insight 4: if dividas > 0: ...
insight_dividas(dividas) ==
    IF RLt(RInt(0), dividas)
    THEN <<Insight("warning", "Dívidas em Aberto",
                   "Existem R$ {:,.2f} em contas não pagas vencendo.",
                   <<format_f(dividas, 2)>>, "Priorize quitação", "Alta")>>
    ELSE <<>>

\* insights[:4] gone wrong: insights[:3]
first_3(xs) == SubSeq(xs, 1, IF Len(xs) < 3 THEN Len(xs) ELSE 3)

\* insights[:4]
first_4(xs) == SubSeq(xs, 1, IF Len(xs) < 4 THEN Len(xs) ELSE 4)

\* generate_insights(): the lists it can return
generate_insights(rows) ==
    {first_4(insight_maior_gasto(ranking)
             \o insight_economia(get_kpis(rows).taxa_economia.valor)
             \o insight_tendencia(get_tendencia(rows))
             \o insight_dividas(get_kpis(rows).dividas_pendentes.valor)) :
     ranking \in get_ranking_categorias(rows, 3)}

----------------------------------------------------------------------------
(* The CSV files the model reads *)

\* every sequence over S of length at most n
SeqsUpTo(S, n) == UNION {[1..k -> S] : k \in 0..n}

\* n copies of r
Repeat(r, n) == [i \in 1..n |-> r]

\* the tables DataLoader.load() can build from the rows of a file
built_tables(rows) == {_add_calculated_columns(t) : t \in _clean_data(rows)}

\* Files of the loader and dashboard: up to MaxRows lines, in any order, each
\* an income of 400, an expense of 50, or a line of separators only
LoaderRows ==
    {r \in RawRows :
        /\ r.Categoria = "Gasolina"
        /\ r.Pago_ou_nao_pago = "Não Pago"
        /\ \/ r.Tipo = "Entrada" /\ r.Valor = Some(400)
           \/ r.Tipo = "Saída" /\ r.Valor = Some(50)}
    \cup {EmptyRow}

LoaderFiles == SeqsUpTo(LoaderRows, MaxRows)

\* Files of the engine: any row up to MaxRepeat times, then at most one row of
\* a later day
LaterRows ==
    [Data : {3}, Categoria : {"Gasolina"}, Codigo : {Some(8888)},
     Tipo : {"Entrada", "Saída", "Dívida"},
     Pago_ou_nao_pago : Pagos, Valor : {Some(v) : v \in Valores}]

EngineFiles ==
    {Repeat(a, n) : a \in RawRows, n \in 0..MaxRepeat}
    \cup {Repeat(a, n) \o <<b>> : a \in RawRows, n \in 1..MaxRepeat, b \in LaterRows}

----------------------------------------------------------------------------
(* The loader and the dashboard *)

\* what load() raises when it reads and builds: FileNotFoundError when no
\* file is there (l.84-85); Exception when a date cell cannot be parsed, as
\* read_csv then leaves Data a text column and the first .dt of
\* _add_calculated_columns raises, which l.86-87 wrap; None when nothing
load_raises ==
    IF ~file_exists THEN Some("FileNotFoundError")
    ELSE IF _clean_data(file) = {} THEN Some("Exception")
    ELSE IF \E i \in DOMAIN file : file[i].Data = Unparsable THEN Some("Exception")
    ELSE None

\* self._df gone wrong after a raise: the cleaned table kept before the
\* derived columns are added to it
_df_after_raise_partial(cached) ==
    IF file_exists THEN Some(CHOOSE t \in _clean_data(file) : TRUE) ELSE cached

\* self._df after load() raised: l.81, the only assignment, was not reached
_df_after_raise(cached) == cached

\* load gone wrong: the cache test of l.58-59 left out, every call reads
load_uncached(force_reload) ==
    IF load_raises # None
    THEN {[_df |-> _df_after_raise(_df), raised |-> load_raises, returned |-> None]}
    ELSE {[_df |-> Some(t), raised |-> None, returned |-> Some(t)] :
            t \in built_tables(file)}

\* DataLoader.load(force_reload): the ways it can end, each with the cache it
\* leaves, what it raised and what it returned
load(force_reload) ==
    IF _df # None /\ ~force_reload
    THEN {[_df |-> _df, raised |-> None, returned |-> _df]}
    ELSE IF load_raises # None
    THEN {[_df |-> _df_after_raise(_df), raised |-> load_raises, returned |-> None]}
    ELSE {[_df |-> Some(t), raised |-> None, returned |-> Some(t)] :
            t \in built_tables(file)}

\* how a call of load ended, for load_outcome
Outcome(o) == Some([raised |-> o.raised, returned |-> o.returned])

\* data_loader.load(force_reload) called on its own
Load(force_reload) ==
    /\ \E o \in load(force_reload) :
            /\ _df' = o._df
            /\ load_outcome' = Outcome(o)
    /\ UNCHANGED <<trend, loading, reader_df, _data_loader, file_exists, gpu_available, filtered, file, df, engine_df,
                   kpis, alertas, anomalias, previsao, insights>>

\* app.py at import: df = data_loader.load(); analytics = AnalyticsEngine(df).
\* When load raises, the import fails and there is no application.
AppStart ==
    /\ df = None
    /\ \E o \in load(FALSE) :
            /\ o.raised = None
            /\ _df' = o._df
            /\ load_outcome' = Outcome(o)
            /\ df' = o.returned
            /\ engine_df' = o.returned
    /\ UNCHANGED <<trend, loading, reader_df, _data_loader, file_exists, gpu_available, filtered, file,
                   kpis, alertas, anomalias, previsao, insights>>

\* the rows update_dashboard keeps of df.copy(); a None, empty or 'all' filter
\* keeps every row
filtered_rows(rows, start_date, end_date, categories, types, status) ==
    LET Keep(r) ==
            /\ start_date = None \/ r.Data >= start_date[1]
            /\ end_date = None \/ r.Data <= end_date[1]
            /\ categories = {} \/ "all" \in categories \/ r.Categoria \in categories
            /\ types = {} \/ "all" \in types \/ r.Tipo \in types
            /\ status = None \/ status[1] = "all" \/ r.Pago_ou_nao_pago = status[1]
    IN  SelectSeq(rows, Keep)

\* the dashboard callback: filter a copy of df, build an engine on it and ask
\* it for the KPIs and the alerts
update_dashboard(start_date, end_date, categories, types, status) ==
    /\ df # None
    /\ LET filtered_df == filtered_rows(df[1], start_date, end_date, categories, types, status)
       IN  /\ engine_df' = Some(filtered_df)
           /\ kpis' = Some(get_kpis(filtered_df))
           /\ alertas' = Some(get_alertas(filtered_df))
    /\ UNCHANGED <<trend, loading, reader_df, _data_loader, file_exists, gpu_available, filtered, load_outcome, file, _df,
                   df, anomalias, previsao, insights>>

\* the values the model gives the callback's inputs
StartDates == {None, Some(2)}
EndDates == {None, Some(1)}
CategoryFilters == {{"all"}}
TypeFilters == {{}, {"Entrada"}}
StatusFilters == {Some("all")}

Init ==
    /\ file \in LoaderFiles
    /\ _df = None
    /\ df = None
    /\ engine_df = None
    /\ kpis = None
    /\ alertas = None
    /\ anomalias = None
    /\ previsao = None
    /\ insights = None
    /\ trend = None
    /\ loading = None
    /\ reader_df = None
    /\ _data_loader = None
    /\ file_exists = TRUE
    /\ gpu_available = FALSE
    /\ filtered = None
    /\ load_outcome = None

Next ==
    \/ \E force_reload \in BOOLEAN : Load(force_reload)
    \/ AppStart
    \/ \E s \in StartDates, e \in EndDates, c \in CategoryFilters,
          t \in TypeFilters, p \in StatusFilters : update_dashboard(s, e, c, t, p)

Spec == Init /\ [][Next]_vars

----------------------------------------------------------------------------
(* The loader on its own, over a file that is replaced between the calls *)

\* DataLoader.filter_data on the table load() returned.  object names the
\* table object that is returned: "self._df", the loader's cached table itself,
\* or "new", a table the call created (every df[mask] and to_pandas() creates
\* one).  The test of an argument is the code's: a None or empty argument is skipped,
\* valor_min and valor_max are compared with None.  custo_tipo and busca are
\* None: the model has no column for them.
filter_data(cached, start_date, end_date, categorias, tipos, status_pago, valor_min, valor_max) ==
    LET Keep(r) ==
            /\ start_date = None \/ r.Data >= start_date[1]
            /\ end_date = None \/ r.Data <= end_date[1]
            /\ categorias = {} \/ r.Categoria \in categorias
            /\ tipos = {} \/ r.Tipo \in tipos
            /\ status_pago = None \/ r.Pago_ou_nao_pago = status_pago[1]
            /\ valor_min = None \/ r.Valor >= valor_min[1]
            /\ valor_max = None \/ r.Valor <= valor_max[1]
        masked ==
            \/ start_date # None \/ end_date # None
            \/ categorias # {} \/ tipos # {}
            \/ status_pago # None
            \/ valor_min # None \/ valor_max # None
    IN  [object |-> IF masked \/ gpu_available THEN "new" ELSE "self._df",
         rows |-> SelectSeq(cached, Keep)]

\* data_loader.filter_data(...): it loads first, and a raise of load is its own
FilterData(start_date, end_date, categorias, tipos, status_pago, valor_min, valor_max) ==
    /\ \E o \in load(FALSE) :
            /\ _df' = o._df
            /\ load_outcome' = Outcome(o)
            /\ filtered' =
                    IF o.raised # None THEN filtered
                    ELSE Some(filter_data(o.returned[1], start_date, end_date, categorias,
                                          tipos, status_pago, valor_min, valor_max))
    /\ UNCHANGED <<trend, loading, reader_df, _data_loader, file_exists, gpu_available, file, df, engine_df,
                   kpis, alertas, anomalias, previsao, insights>>

\* the file at filepath is written anew between two calls
ReplaceFile(rows) ==
    /\ file' = rows
    /\ file_exists' = TRUE
    /\ UNCHANGED <<trend, loading, reader_df, _data_loader, gpu_available, filtered, load_outcome, _df, df, engine_df,
                   kpis, alertas, anomalias, previsao, insights>>

\* the file at filepath is removed between two calls; a file that does not
\* exist has no rows
RemoveFile ==
    /\ file_exists
    /\ file' = <<>>
    /\ file_exists' = FALSE
    /\ UNCHANGED <<trend, loading, reader_df, _data_loader, gpu_available, filtered, load_outcome, _df, df, engine_df,
                   kpis, alertas, anomalias, previsao, insights>>

\* the rows of the replaced files: an income of 400 on day 1, an expense of 50
\* on day 2, and an income whose date cannot be parsed
ReplacedRows ==
    {r \in [Data : {1, 2, Unparsable}, Categoria : {"Gasolina"}, Codigo : {Some(8888)},
            Tipo : {"Entrada", "Saída"},
            Pago_ou_nao_pago : {"Não Pago"}, Valor : {Some(50), Some(400)}] :
        \/ r.Data = 1 /\ r.Tipo = "Entrada" /\ r.Valor = Some(400)
        \/ r.Data = 2 /\ r.Tipo = "Saída" /\ r.Valor = Some(50)
        \/ r.Data = Unparsable /\ r.Tipo = "Entrada" /\ r.Valor = Some(400)}

ReplacedFiles == SeqsUpTo(ReplacedRows, MaxReplacedRows)

\* the values the model gives the arguments of filter_data
FilterCategorias == {{}}
FilterTipos == {{}, {"Entrada"}}
FilterStatus == {None, Some("Não Pago")}
ValorMins == {None, Some(0)}
ValorMaxs == {None}

InitLoader ==
    /\ file_exists \in BOOLEAN
    /\ file \in IF file_exists THEN ReplacedFiles ELSE {<<>>}
    /\ gpu_available \in BOOLEAN
    /\ filtered = None
    /\ load_outcome = None
    /\ _df = None
    /\ df = None
    /\ engine_df = None
    /\ kpis = None
    /\ alertas = None
    /\ anomalias = None
    /\ previsao = None
    /\ insights = None
    /\ trend = None
    /\ loading = None
    /\ reader_df = None
    /\ _data_loader = None

NextLoader ==
    \/ \E force_reload \in BOOLEAN : Load(force_reload)
    \/ \E s \in StartDates, e \in EndDates, c \in FilterCategorias, t \in FilterTipos,
          p \in FilterStatus, lo \in ValorMins, hi \in ValorMaxs :
            FilterData(s, e, c, t, p, lo, hi)
    \/ \E rows \in ReplacedFiles : ReplaceFile(rows)
    \/ RemoveFile

SpecLoader == InitLoader /\ [][NextLoader]_vars

----------------------------------------------------------------------------
(* The engine on its own: get_kpis and get_alertas on the engine the *)
(* application builds at start-up                                     *)

\* app.py after import: data_loader = DataLoader(); df = data_loader.load();
\* analytics = AnalyticsEngine(df)
InitEngine ==
    /\ file \in EngineFiles
    /\ \E t \in built_tables(file) :
            /\ _df = Some(t)
            /\ df = Some(t)
            /\ engine_df = Some(t)
    /\ kpis = None
    /\ alertas = None
    /\ anomalias = None
    /\ previsao = None
    /\ insights = None
    /\ trend = None
    /\ loading = None
    /\ reader_df = None
    /\ _data_loader = None
    /\ file_exists = TRUE
    /\ gpu_available = FALSE
    /\ filtered = None
    /\ load_outcome = None

\* analytics.get_kpis()
GetKpis ==
    /\ engine_df # None
    /\ kpis' = Some(get_kpis(engine_df[1]))
    /\ UNCHANGED <<trend, loading, reader_df, _data_loader, file_exists, gpu_available, filtered, load_outcome, file, _df,
                   df, engine_df, alertas, anomalias, previsao, insights>>

\* analytics.get_alertas()
GetAlertas ==
    /\ engine_df # None
    /\ alertas' = Some(get_alertas(engine_df[1]))
    /\ UNCHANGED <<trend, loading, reader_df, _data_loader, file_exists, gpu_available, filtered, load_outcome, file, _df,
                   df, engine_df, kpis, anomalias, previsao, insights>>

NextEngine == GetKpis \/ GetAlertas

SpecEngine == InitEngine /\ [][NextEngine]_vars

----------------------------------------------------------------------------
(* The engine's anomaly detection on its own *)

\* Files of the anomaly detection, of expenses of 100 or 1000 in two
\* categories: up to MaxAnomalyRows rows in any order, or one row up to
\* MaxAnomalyRepeat times and then another row
AnomalyRows ==
    {r \in [Data : {1}, Categoria : Categorias, Codigo : {Some(8888), Some(3333)},
            Tipo : {"Saída"}, Pago_ou_nao_pago : {"Pago"},
            Valor : {Some(100), Some(1000)}] :
        r.Codigo = CodigoDe(r.Categoria)}

AnomalyFiles ==
    SeqsUpTo(AnomalyRows, MaxAnomalyRows)
    \cup {f \in {Repeat(a, n) \o <<b>> :
                    a \in AnomalyRows, n \in 1..MaxAnomalyRepeat, b \in AnomalyRows} :
            f[Len(f)] # f[1]}

\* the file with the i-th row dated day i
dated(f) == [i \in DOMAIN f |-> [f[i] EXCEPT !.Data = i]]

\* the thresholds the model gives detectar_anomalias: 0.5, 1.9 and the default
Thresholds == {[num |-> 1, den |-> 2], [num |-> 19, den |-> 10], DefaultThreshold}

InitAnomalias ==
    /\ file \in {dated(f) : f \in AnomalyFiles}
    /\ \E t \in built_tables(file) :
            /\ _df = Some(t)
            /\ df = Some(t)
            /\ engine_df = Some(t)
    /\ kpis = None
    /\ alertas = None
    /\ anomalias = None
    /\ previsao = None
    /\ insights = None
    /\ trend = None
    /\ loading = None
    /\ reader_df = None
    /\ _data_loader = None
    /\ file_exists = TRUE
    /\ gpu_available = FALSE
    /\ filtered = None
    /\ load_outcome = None

\* analytics.detectar_anomalias(threshold); what it returned is kept with the
\* threshold it was given
DetectarAnomalias(threshold) ==
    /\ engine_df # None
    /\ \E err \in Roundings :
        \E a \in detectar_anomalias(engine_df[1], threshold, err) :
            anomalias' = Some([threshold |-> threshold, flagged |-> a])
    /\ engine_df' = Some(self_df_after_detectar_anomalias(engine_df[1]))
    /\ UNCHANGED <<trend, loading, reader_df, _data_loader, file_exists, gpu_available,
                   filtered, load_outcome, file, _df, df, kpis, alertas, previsao, insights>>

NextAnomalias == \E threshold \in Thresholds : DetectarAnomalias(threshold)

SpecAnomalias == InitAnomalias /\ [][NextAnomalias]_vars

----------------------------------------------------------------------------
(* The engine's forecast on its own *)

\* Files of the forecast: up to MaxForecastRows incomes and expenses of 50 or
\* 400 on days 1, 6, 7 and 32, in any order
ForecastRows ==
    [Data : {1, 6, 7, 32}, Categoria : {"Gasolina"}, Codigo : {Some(8888)},
     Tipo : {"Entrada", "Saída"},
     Pago_ou_nao_pago : {"Pago"}, Valor : {Some(50), Some(400)}]

ForecastFiles == SeqsUpTo(ForecastRows, MaxForecastRows)

\* the horizons the model gives prever_proximos_dias: 1, 3 and the default
Dias == {1, 3, 30}

InitForecast ==
    /\ file \in ForecastFiles
    /\ \E t \in built_tables(file) :
            /\ _df = Some(t)
            /\ df = Some(t)
            /\ engine_df = Some(t)
    /\ kpis = None
    /\ alertas = None
    /\ anomalias = None
    /\ previsao = None
    /\ insights = None
    /\ trend = None
    /\ loading = None
    /\ reader_df = None
    /\ _data_loader = None
    /\ file_exists = TRUE
    /\ gpu_available = FALSE
    /\ filtered = None
    /\ load_outcome = None

\* analytics.prever_proximos_dias(dias); what it returned is kept with the
\* horizon it was given
PreverProximosDias(dias) ==
    /\ engine_df # None
    /\ previsao' = Some([dias |-> dias, result |-> prever_proximos_dias(engine_df[1], dias)])
    /\ UNCHANGED <<trend, loading, reader_df, _data_loader, file_exists, gpu_available, filtered, load_outcome, file, _df,
                   df, engine_df, kpis, alertas, anomalias, insights>>

NextForecast == \E dias \in Dias : PreverProximosDias(dias)

SpecForecast == InitForecast /\ [][NextForecast]_vars

----------------------------------------------------------------------------
(* The engine's insights on its own, on the engine built at start-up *)

\* analytics.generate_insights()
GenerateInsights ==
    /\ engine_df # None
    /\ \E xs \in generate_insights(engine_df[1]) : insights' = Some(xs)
    /\ UNCHANGED <<trend, loading, reader_df, _data_loader, file_exists, gpu_available, filtered, load_outcome, file, _df,
                   df, engine_df, kpis, alertas, anomalias, previsao>>

NextInsights == GenerateInsights

SpecInsights == InitEngine /\ [][NextInsights]_vars

----------------------------------------------------------------------------
(* The loader on its own, over files whose rows have defects *)

\* Rows of day 1 with any of the defects of a record: no category name, a
\* code that CATEGORIAS_MAP does not have (7777) or no code at all, neither
\* kind nor payment status, an amount that is missing or not a number
DefectRows ==
    {r \in [Data : {1}, Categoria : {"Gasolina", NaN},
            Codigo : {Some(8888), Some(7777), None}, Tipo : {"Entrada", NaN},
            Pago_ou_nao_pago : {"Pago", NaN}, Valor : {None, Some(50)}] :
        (r.Tipo = NaN) <=> (r.Pago_ou_nao_pago = NaN)}

DefectFiles == SeqsUpTo(DefectRows \cup {EmptyRow}, MaxDefectRows)

InitDefects ==
    /\ file \in DefectFiles
    /\ file_exists = TRUE
    /\ gpu_available = FALSE
    /\ filtered = None
    /\ load_outcome = None
    /\ _df = None
    /\ df = None
    /\ engine_df = None
    /\ kpis = None
    /\ alertas = None
    /\ anomalias = None
    /\ previsao = None
    /\ insights = None
    /\ trend = None
    /\ loading = None
    /\ reader_df = None
    /\ _data_loader = None

NextDefects == \E force_reload \in BOOLEAN : Load(force_reload)

SpecDefects == InitDefects /\ [][NextDefects]_vars

----------------------------------------------------------------------------
(* Every operation of one engine, in any order *)

\* Files of that engine: up to MaxAnalyticsRows rows in any order, each an
\* income of 400 or an expense of 50, on day 1 or day 7
AnalyticsRows ==
    {r \in ForecastRows :
        /\ r.Data \in {1, 7}
        /\ r.Valor = IF r.Tipo = "Entrada" THEN Some(400) ELSE Some(50)}

AnalyticsFiles == SeqsUpTo(AnalyticsRows, MaxAnalyticsRows)

\* analytics = AnalyticsEngine(data_loader.load())
InitAnalytics ==
    /\ file \in AnalyticsFiles
    /\ \E t \in built_tables(file) :
            /\ _df = Some(t)
            /\ df = Some(t)
            /\ engine_df = Some(t)
    /\ kpis = None
    /\ alertas = None
    /\ anomalias = None
    /\ previsao = None
    /\ insights = None
    /\ trend = None
    /\ loading = None
    /\ reader_df = None
    /\ _data_loader = None
    /\ file_exists = TRUE
    /\ gpu_available = FALSE
    /\ filtered = None
    /\ load_outcome = None

\* analytics.get_tendencia()
GetTendencia ==
    /\ engine_df # None
    /\ trend' = Some(get_tendencia(engine_df[1]))
    /\ UNCHANGED <<loading, reader_df, _data_loader, file_exists, gpu_available, filtered,
                   load_outcome, file, _df, df, engine_df, kpis, alertas, anomalias,
                   previsao, insights>>

\* the operations with their default arguments, as get_alertas (l.265) and
\* get_resumo_completo (l.393-399) call them; get_analise_categorias,
\* get_ranking_categorias and get_serie_temporal are steps of the others
NextAnalytics ==
    \/ GetKpis
    \/ GetAlertas
    \/ GetTendencia
    \/ DetectarAnomalias(DefaultThreshold)
    \/ PreverProximosDias(30)
    \/ GenerateInsights

SpecAnalytics == InitAnalytics /\ [][NextAnalytics]_vars

----------------------------------------------------------------------------
(* A refresh, load(force_reload=True), step by step, next to a reader *)

\* self._df gone wrong while load() builds: the table being built is the
\* cached one, modified where it is
self_df_while_loading_in_place(cached, local) == Some(local)

\* self._df while load() builds: _clean_data and _add_calculated_columns work
\* on the local name df (l.78-79), whose table read_csv and dropna made anew
self_df_while_loading(cached, local) == cached

\* load(force_reload=True) on a loader that has a table: read_csv (l.64-69)
\* has returned the rows of the file, or raised
LoadReadCsv ==
    /\ loading = None
    /\ _df # None
    /\ IF file_exists
       THEN /\ loading' = Some([pc |-> "read_csv", df |-> file])
            /\ UNCHANGED load_outcome
       ELSE /\ loading' = None
            /\ load_outcome' = Some([raised |-> Some("FileNotFoundError"), returned |-> None])
    /\ UNCHANGED <<trend, reader_df, _data_loader, file_exists, gpu_available, filtered, file,
                   _df, df, engine_df, kpis, alertas, anomalias, previsao, insights>>

\* the next of l.78 and l.79: _clean_data, then _add_calculated_columns, which
\* raises on a Data column that was not parsed
LoadBuild ==
    /\ loading # None
    /\ \/ /\ loading[1].pc = "read_csv"
          /\ \E t \in _clean_data(loading[1].df) :
                /\ loading' = Some([pc |-> "_clean_data", df |-> t])
                /\ _df' = self_df_while_loading(_df, t)
          /\ UNCHANGED load_outcome
       \/ /\ loading[1].pc = "_clean_data"
          /\ IF \E i \in DOMAIN loading[1].df : loading[1].df[i].Data = Unparsable
             THEN /\ loading' = None
                  /\ load_outcome' = Some([raised |-> Some("Exception"), returned |-> None])
                  /\ UNCHANGED _df
             ELSE /\ loading' = Some([pc |-> "_add_calculated_columns",
                                      df |-> _add_calculated_columns(loading[1].df)])
                  /\ _df' = self_df_while_loading(_df, loading'[1].df)
                  /\ UNCHANGED load_outcome
    /\ UNCHANGED <<trend, reader_df, _data_loader, file_exists, gpu_available, filtered, file,
                   df, engine_df, kpis, alertas, anomalias, previsao, insights>>

\* l.81-82: self._df = df; return df
LoadAssign ==
    /\ loading # None
    /\ loading[1].pc = "_add_calculated_columns"
    /\ _df' = Some(loading[1].df)
    /\ load_outcome' = Some([raised |-> None, returned |-> Some(loading[1].df)])
    /\ loading' = None
    /\ UNCHANGED <<trend, reader_df, _data_loader, file_exists, gpu_available, filtered, file,
                   df, engine_df, kpis, alertas, anomalias, previsao, insights>>

\* another thread's data_loader.get_raw_data(), or its load(), which returns
\* self._df as the loader has a table (l.58-59)
GetRawData ==
    /\ reader_df' = _df
    /\ UNCHANGED <<trend, loading, _data_loader, file_exists, gpu_available, filtered,
                   load_outcome, file, _df, df, engine_df, kpis, alertas, anomalias,
                   previsao, insights>>

\* the files of a refresh: the replaced files whose dates can all be parsed
RefreshFiles == {f \in ReplacedFiles : \A i \in DOMAIN f : f[i].Data # Unparsable}

\* the loader has loaded the file; nothing else has happened
InitRefresh ==
    /\ file \in RefreshFiles
    /\ _df \in {Some(t) : t \in built_tables(file)}
    /\ file_exists = TRUE
    /\ gpu_available = FALSE
    /\ filtered = None
    /\ load_outcome = None
    /\ df = None
    /\ engine_df = None
    /\ kpis = None
    /\ alertas = None
    /\ anomalias = None
    /\ previsao = None
    /\ insights = None
    /\ trend = None
    /\ loading = None
    /\ reader_df = None
    /\ _data_loader = None

NextRefresh ==
    \/ LoadReadCsv
    \/ LoadBuild
    \/ LoadAssign
    \/ GetRawData
    \/ \E rows \in RefreshFiles : ReplaceFile(rows)
    \/ RemoveFile

SpecRefresh == InitRefresh /\ [][NextRefresh]_vars

----------------------------------------------------------------------------
(* The engine on a ledger of three days: one operation at a time *)

\* Rows of the ledger: on day 1, 2 or 3, an income of 100 or an expense of
\* 10, 70 or 90
LedgerRows ==
    {r \in [Data : {1, 2, 3}, Categoria : {"Gasolina"}, Codigo : {Some(8888)},
            Tipo : {"Entrada", "Saída"}, Pago_ou_nao_pago : {"Pago"},
            Valor : {Some(10), Some(70), Some(90), Some(100)}] :
        (r.Tipo = "Entrada") <=> (r.Valor = Some(100))}

LedgerFiles == SeqsUpTo(LedgerRows, MaxLedgerRows)

\* analytics = AnalyticsEngine(data_loader.load())
InitLedger ==
    /\ file \in LedgerFiles
    /\ \E t \in built_tables(file) :
            /\ _df = Some(t)
            /\ df = Some(t)
            /\ engine_df = Some(t)
    /\ kpis = None
    /\ alertas = None
    /\ anomalias = None
    /\ previsao = None
    /\ insights = None
    /\ trend = None
    /\ loading = None
    /\ reader_df = None
    /\ _data_loader = None
    /\ file_exists = TRUE
    /\ gpu_available = FALSE
    /\ filtered = None
    /\ load_outcome = None

\* get_kpis, which calls _calcular_variacao_periodo for incomes and expenses
SpecVariacao == InitLedger /\ [][GetKpis]_vars

\* get_tendencia on its own
SpecTendencia == InitLedger /\ [][GetTendencia]_vars

\* analytics.generate_insights() on the engine of a ledger
SpecEconomia == InitLedger /\ [][GenerateInsights]_vars

(* The anomaly detection at its default threshold, on one category *)

\* Files of one category: up to MaxCategoryRows expenses of 10, 100 or 1000,
\* in any order, the i-th dated day i
CategoryRows ==
    [Data : {1}, Categoria : {"Gasolina"}, Codigo : {Some(8888)}, Tipo : {"Saída"},
     Pago_ou_nao_pago : {"Pago"}, Valor : {Some(10), Some(100), Some(1000)}]

CategoryFiles == {dated(f) : f \in SeqsUpTo(CategoryRows, MaxCategoryRows)}

InitCategory ==
    /\ file \in CategoryFiles
    /\ \E t \in built_tables(file) :
            /\ _df = Some(t)
            /\ df = Some(t)
            /\ engine_df = Some(t)
    /\ kpis = None
    /\ alertas = None
    /\ anomalias = None
    /\ previsao = None
    /\ insights = None
    /\ trend = None
    /\ loading = None
    /\ reader_df = None
    /\ _data_loader = None
    /\ file_exists = TRUE
    /\ gpu_available = FALSE
    /\ filtered = None
    /\ load_outcome = None

\* analytics.detectar_anomalias()
SpecCategory == InitCategory /\ [][DetectarAnomalias(DefaultThreshold)]_vars

(* The loader's cache and the module's singleton *)

\* data_loader.get_summary(): df = self.load(), then sums over df, which
\* change nothing; the dict it returns is not kept
GetSummary ==
    /\ \E o \in load(FALSE) :
            /\ _df' = o._df
            /\ load_outcome' = Outcome(o)
    /\ UNCHANGED <<trend, loading, reader_df, _data_loader, file_exists, gpu_available,
                   filtered, file, df, engine_df, kpis, alertas, anomalias, previsao,
                   insights>>

\* get_data_loader gone wrong: a DataLoader constructed at every call
get_data_loader_fresh(instance) ==
    IF instance = None THEN Some(1) ELSE Some((instance[1] % 2) + 1)

\* get_data_loader(): the module's _data_loader after the call, which is the
\* instance returned; instances are numbered in order of construction
get_data_loader(instance) == IF instance = None THEN Some(1) ELSE instance

\* get_data_loader()
GetDataLoader ==
    /\ _data_loader' = get_data_loader(_data_loader)
    /\ UNCHANGED <<trend, loading, reader_df, file_exists, gpu_available, filtered,
                   load_outcome, file, _df, df, engine_df, kpis, alertas, anomalias,
                   previsao, insights>>

\* the filter_data calls of the model
SomeFilterData ==
    \E s \in StartDates, e \in EndDates, c \in FilterCategorias, t \in FilterTipos,
       p \in FilterStatus, lo \in ValorMins, hi \in ValorMaxs :
        FilterData(s, e, c, t, p, lo, hi)

InitCache ==
    /\ file_exists \in BOOLEAN
    /\ file \in IF file_exists THEN RefreshFiles ELSE {<<>>}
    /\ gpu_available = FALSE
    /\ filtered = None
    /\ load_outcome = None
    /\ _df = None
    /\ df = None
    /\ engine_df = None
    /\ kpis = None
    /\ alertas = None
    /\ anomalias = None
    /\ previsao = None
    /\ insights = None
    /\ trend = None
    /\ loading = None
    /\ reader_df = None
    /\ _data_loader = None

NextCache ==
    \/ \E force_reload \in BOOLEAN : Load(force_reload)
    \/ GetSummary
    \/ SomeFilterData
    \/ GetDataLoader
    \/ \E rows \in RefreshFiles : ReplaceFile(rows)
    \/ RemoveFile

SpecCache == InitCache /\ [][NextCache]_vars

----------------------------------------------------------------------------
(* Properties *)

\* the positions of the rows of t that satisfy Test
Where(t, Test(_)) == {i \in DOMAIN t : Test(t[i])}

RECURSIVE SumAt(_, _, _)
\* the sum of column col of t over the positions in I
SumAt(t, col, I) ==
    IF I = {} THEN 0
    ELSE LET i == CHOOSE x \in I : TRUE
         IN  t[i][col] + SumAt(t, col, I \ {i})

IsEntrada(r) == r.Tipo = "Entrada"
IsSaida(r) == r.Tipo = "Saída"
IsDivida(r) == r.Tipo \in {"Dívida", "Dívida Parcial"}
IsNaoPago(r) == r.Pago_ou_nao_pago = "Não Pago"
IsGasolinaSaida(r) == r.Categoria = "Gasolina" /\ r.Tipo = "Saída"

\* a fraction that is the number n
IsNumber(x, n) == x.den # 0 /\ x.num = n * x.den

\* the position in the returned alerts of the alert titled titulo (0: absent)
AlertAt(as, titulo) ==
    IF \E i \in DOMAIN as : as[i].titulo = titulo
    THEN CHOOSE i \in DOMAIN as : as[i].titulo = titulo
    ELSE 0

\* C1: in every table load() builds, SaldoAcumulado at each row is the sum of
\* ValorComSinal over the rows up to and including it (so at the last row it
\* is the sum over the whole table).
C1_SaldoAcumuladoIsRunningSum ==
    _df # None =>
        \A i \in DOMAIN _df[1] :
            _df[1][i].SaldoAcumulado = SumAt(_df[1], "ValorComSinal", 1..i)

\* a loaded table of three rows, the first two of one date and different kinds
C1_Witness ==
    /\ _df # None
    /\ Len(_df[1]) = 3
    /\ _df[1][1].Data = _df[1][2].Data
    /\ _df[1][1].Tipo # _df[1][2].Tipo
    /\ _df[1][3].SaldoAcumulado # _df[1][3].ValorComSinal

\* C2: in every row of the built table ValorComSinal is +Valor for Entrada
\* and -Valor for every other Tipo, the debt kinds and 'Não Informado'
\* included; so a row that is not an Entrada lowers the running balance by
\* its Valor.
C2_ValorComSinalBySign ==
    _df # None =>
        \A i \in DOMAIN _df[1] :
            LET r == _df[1][i]
                before == IF i = 1 THEN 0 ELSE _df[1][i - 1].SaldoAcumulado
            IN  /\ r.Tipo = "Entrada" => r.ValorComSinal = r.Valor
                /\ r.Tipo # "Entrada" =>
                        /\ r.ValorComSinal = 0 - r.Valor
                        /\ r.SaldoAcumulado = before - r.Valor

\* a built table with a 'Não Informado' row and a 'Dívida' row of positive
\* amounts and a negative balance at its end
C2_Witness ==
    /\ _df # None
    /\ \E i, j \in DOMAIN _df[1] :
            /\ _df[1][i].Tipo = NaoInformado /\ _df[1][i].Valor > 0
            /\ _df[1][j].Tipo = "Dívida" /\ _df[1][j].Valor > 0
    /\ _df[1][Len(_df[1])].SaldoAcumulado < 0

\* C3: saldo_total and balanco both equal receitas minus despesas of the same
\* result, and despesas is the sum of Valor over the 'Saída' rows only.
C3_BalanceIsIncomeMinusExpense ==
    kpis # None =>
        LET k == kpis[1]
            t == engine_df[1]
        IN  /\ REq(k.saldo_total.valor, RSub(k.receitas.valor, k.despesas.valor))
            /\ REq(k.balanco.valor, RSub(k.receitas.valor, k.despesas.valor))
            /\ IsNumber(k.despesas.valor, SumAt(t, "Valor", Where(t, IsSaida)))
            /\ IsNumber(k.receitas.valor, SumAt(t, "Valor", Where(t, IsEntrada)))

\* KPIs of a table that holds an expense and a debt, both of positive amount
C3_Witness ==
    /\ kpis # None
    /\ \E i, j \in DOMAIN engine_df[1] :
            /\ IsSaida(engine_df[1][i]) /\ engine_df[1][i].Valor > 0
            /\ IsDivida(engine_df[1][j]) /\ engine_df[1][j].Valor > 0

\* C4: when the table's total income is 0, taxa_economia is the number 0,
\* whatever the expenses are.
C4_NoIncomeRateZero ==
    (kpis # None /\ SumAt(engine_df[1], "Valor", Where(engine_df[1], IsEntrada)) = 0) =>
        IsNumber(kpis[1].taxa_economia.valor, 0)

\* KPIs of a table with expenses and no income
C4_Witness ==
    /\ kpis # None
    /\ SumAt(engine_df[1], "Valor", Where(engine_df[1], IsEntrada)) = 0
    /\ SumAt(engine_df[1], "Valor", Where(engine_df[1], IsSaida)) > 0

\* C5: on the empty table get_kpis returns the seven metrics, each of valor 0,
\* and every variacao_pct it reports is 0.
C5_EmptyTableAllZero ==
    (kpis # None /\ engine_df = Some(<<>>)) =>
        LET k == kpis[1]
        IN  /\ DOMAIN k = {"saldo_total", "receitas", "despesas", "balanco",
                           "dividas_pendentes", "taxa_economia", "total_dividas"}
            /\ \A m \in DOMAIN k :
                    /\ IsNumber(k[m].valor, 0)
                    /\ k[m].variacao_pct # None => IsNumber(k[m].variacao_pct[1], 0)

\* KPIs computed on the empty table
C5_Witness == kpis # None /\ engine_df = Some(<<>>)

\* C6: on the empty table get_alertas returns the empty list.
C6_EmptyTableNoAlerts ==
    (alertas # None /\ engine_df = Some(<<>>)) => alertas[1] = <<>>

\* the rank of a priority: alta first, then media, then baixa
PriorityRank(p) == CASE p = "alta" -> 0 [] p = "media" -> 1 [] p = "baixa" -> 2

\* C7: in the returned list no alert of a lower priority precedes one of a
\* higher priority.
C7_AlertsSortedByPriority ==
    alertas # None =>
        \A i, j \in DOMAIN alertas[1] :
            i < j => PriorityRank(alertas[1][i].prioridade)
                        <= PriorityRank(alertas[1][j].prioridade)

\* all five alerts returned
C7_Witness == alertas # None /\ Len(alertas[1]) = 5

\* C8: of two alerts of one priority the one whose rule comes first comes
\* first: pending debt before negative balance, low savings rate before fuel.
C8_RuleOrderOnTies ==
    alertas # None =>
        LET as == alertas[1]
        IN  /\ (AlertAt(as, "Dívidas Pendentes") > 0 /\ AlertAt(as, "Saldo Negativo") > 0)
                    => AlertAt(as, "Dívidas Pendentes") < AlertAt(as, "Saldo Negativo")
            /\ (AlertAt(as, "Taxa de Economia Baixa") > 0
                /\ AlertAt(as, "Alto Gasto com Combustível") > 0)
                    => AlertAt(as, "Taxa de Economia Baixa")
                            < AlertAt(as, "Alto Gasto com Combustível")

\* both pairs returned
C8_Witness ==
    /\ alertas # None
    /\ AlertAt(alertas[1], "Dívidas Pendentes") > 0
    /\ AlertAt(alertas[1], "Saldo Negativo") > 0
    /\ AlertAt(alertas[1], "Taxa de Economia Baixa") > 0
    /\ AlertAt(alertas[1], "Alto Gasto com Combustível") > 0

\* the table has an unpaid row of positive amount
HasUnpaid(t) == \E i \in DOMAIN t : IsNaoPago(t[i]) /\ t[i].Valor > 0

\* C9: when some row is 'Não Pago' with a positive Valor, dividas_pendentes is
\* the sum of Valor over exactly the 'Não Pago' rows, of any Tipo, and
\* get_alertas returns a 'warning' alert of prioridade 'alta' that carries
\* exactly that sum, written with two decimals.
C9_PendingDebtAndItsAlert ==
    (engine_df # None /\ HasUnpaid(engine_df[1])) =>
        LET t == engine_df[1]
            unpaid == SumAt(t, "Valor", Where(t, IsNaoPago))
        IN  /\ kpis # None => IsNumber(kpis[1].dividas_pendentes.valor, unpaid)
            /\ alertas # None =>
                    \E i \in DOMAIN alertas[1] :
                        /\ alertas[1][i].tipo = "warning"
                        /\ alertas[1][i].prioridade = "alta"
                        /\ alertas[1][i].args = <<[decimals |-> 2, units |-> unpaid * 100]>>

\* one unpaid row of 50 that is no debt, among paid rows: pending debt 50 and
\* an alert that carries 50.00
C9_Witness ==
    /\ kpis # None
    /\ alertas # None
    /\ Cardinality(Where(engine_df[1], IsNaoPago)) = 1
    /\ Len(engine_df[1]) > 1
    /\ \E i \in DOMAIN engine_df[1] :
            /\ IsNaoPago(engine_df[1][i])
            /\ engine_df[1][i].Valor = 50
            /\ ~IsDivida(engine_df[1][i])
    /\ IsNumber(kpis[1].dividas_pendentes.valor, 50)
    /\ alertas[1][1].titulo = "Dívidas Pendentes"
    /\ alertas[1][1].args = <<[decimals |-> 2, units |-> 5000]>>

\* an income of 1000, then on a later day an expense of 400, both paid
IsScenarioA(t) ==
    /\ Len(t) = 2
    /\ IsEntrada(t[1]) /\ t[1].Valor = 1000 /\ ~IsNaoPago(t[1])
    /\ IsSaida(t[2]) /\ t[2].Valor = 400 /\ ~IsNaoPago(t[2])
    /\ t[1].Data < t[2].Data

\* C10: each rule decides alone: the debt alert is returned iff pending debt
\* > 0, the savings-rate alert iff the savings rate < 20, the negative-balance
\* alert iff the balance < 0, the anomaly alert iff some row is flagged, the
\* fuel alert iff the Gasolina share of the expenses is over 30%.  An income of
\* 1000 followed by an expense of 400 gives balance 600, savings rate 60, no
\* debt alert and no savings-rate alert.
C10_EachRuleOnItsOwn ==
    LET t == engine_df[1]
        income == SumAt(t, "Valor", Where(t, IsEntrada))
        expense == SumAt(t, "Valor", Where(t, IsSaida))
        fuel == SumAt(t, "Valor", Where(t, IsGasolinaSaida))
        unpaid == SumAt(t, "Valor", Where(t, IsNaoPago))
        low_rate == IF income > 0 THEN (income - expense) * 100 < 20 * income ELSE TRUE
    IN  /\ alertas # None =>
            /\ AlertAt(alertas[1], "Dívidas Pendentes") > 0 <=> unpaid > 0
            /\ AlertAt(alertas[1], "Taxa de Economia Baixa") > 0 <=> low_rate
            /\ AlertAt(alertas[1], "Saldo Negativo") > 0 <=> income - expense < 0
            /\ AlertAt(alertas[1], "{} Transações Atípicas") > 0
                    <=> len_anomalias(t, DefaultThreshold) > 0
            /\ AlertAt(alertas[1], "Alto Gasto com Combustível") > 0
                    <=> (expense > 0 /\ fuel * 10 > 3 * expense)
            /\ IsScenarioA(t) =>
                    /\ AlertAt(alertas[1], "Dívidas Pendentes") = 0
                    /\ AlertAt(alertas[1], "Taxa de Economia Baixa") = 0
        /\ (kpis # None /\ IsScenarioA(t)) =>
            /\ IsNumber(kpis[1].saldo_total.valor, 600)
            /\ IsNumber(kpis[1].taxa_economia.valor, 60)

\* the income of 1000 and the later expense of 400, KPIs and alerts computed
C10_Witness == kpis # None /\ alertas # None /\ IsScenarioA(engine_df[1])

\* the label the trend policy gives a percent delta
TrendLabelOf(pct) ==
    IF RLt(RInt(5), pct) THEN "alta"
    ELSE IF RLt(pct, RInt(-5)) THEN "baixa"
    ELSE "estavel"

\* C15: every metric of get_kpis that carries both a variacao_pct and a
\* tendencia (saldo_total, receitas, despesas, balanco) is labelled 'alta' iff
\* its variacao_pct > 5, 'baixa' iff it is < -5, and 'estavel' otherwise.
C15_TrendLabelFollowsOwnDelta ==
    kpis # None =>
        \A m \in {"saldo_total", "receitas", "despesas", "balanco"} :
            /\ kpis[1][m].variacao_pct # None
            /\ kpis[1][m].tendencia = Some(TrendLabelOf(kpis[1][m].variacao_pct[1]))

\* the rows of the engine's table in category c
RowsOf(c) == Where(engine_df[1], LAMBDA r : r.Categoria = c)

\* C12: of a category whose transactions all have the same Valor,
\* detectar_anomalias flags no transaction, whatever the threshold.
C12_EqualAmountsNeverFlagged ==
    anomalias # None =>
        \A c \in Categorias :
            (\A i, j \in RowsOf(c) : engine_df[1][i].Valor = engine_df[1][j].Valor)
                => \A k \in DOMAIN anomalias[1].flagged :
                        anomalias[1].flagged[k].row.Categoria # c

\* one category of five transactions, four of 100 and one of 1000
IsScenarioD(t) ==
    /\ Len(t) = 5
    /\ \A i, j \in DOMAIN t : t[i].Categoria = t[j].Categoria
    /\ Cardinality(Where(t, LAMBDA r : r.Valor = 100)) = 4
    /\ Cardinality(Where(t, LAMBDA r : r.Valor = 1000)) = 1

\* the amounts of the flagged rows, in the order returned
FlaggedValor == [k \in DOMAIN anomalias[1].flagged |-> anomalias[1].flagged[k].row.Valor]

\* C13 as stated: on four transactions of 100 and one of 1000 in one category,
\* detectar_anomalias with the default threshold 2.0 flags the 1000 and none of
\* the other four.
C13_OutlierFlaggedAtDefault ==
    (anomalias # None /\ IsScenarioD(engine_df[1])
     /\ anomalias[1].threshold = DefaultThreshold)
        => FlaggedValor = <<1000>>

\* C13 amended: on that table the z-score of the 1000 is 4 / sqrt(5), about
\* 1.79, and that of each 100 is -1 / sqrt(5): the 1000 is flagged exactly by the
\* thresholds t with t * t < 16 / 5, each 100 exactly by those with
\* t * t < 1 / 5, and the default threshold 2.0 flags no transaction.
C13_OutlierFlaggedBelowItsZscore ==
    (anomalias # None /\ IsScenarioD(engine_df[1])) =>
        LET t == anomalias[1].threshold
            flags1000 == 5 * t.num * t.num < 16 * t.den * t.den
            flags100 == 5 * t.num * t.num < t.den * t.den
        IN  /\ (1000 \in {FlaggedValor[k] : k \in DOMAIN FlaggedValor}) <=> flags1000
            /\ (100 \in {FlaggedValor[k] : k \in DOMAIN FlaggedValor}) <=> flags100
            /\ Len(FlaggedValor) = (IF flags1000 THEN 1 ELSE 0) + (IF flags100 THEN 4 ELSE 0)
            /\ t = DefaultThreshold => FlaggedValor = <<>>

\* the threshold 0.5 on that table flags the 1000 alone
C13_Witness ==
    /\ anomalias # None
    /\ IsScenarioD(engine_df[1])
    /\ anomalias[1].threshold = [num |-> 1, den |-> 2]
    /\ FlaggedValor = <<1000>>

\* C14: the flagged rows come in descending absolute z-score: of two
\* consecutive ones the first has the larger or the same |zscore|, also when
\* some lie below their category mean and others above.
C14_DescendingAbsoluteZscore ==
    anomalias # None =>
        \A k \in 1..(Len(anomalias[1].flagged) - 1) :
            ~RLt(anomalias[1].flagged[k].zscore.sq, anomalias[1].flagged[k + 1].zscore.sq)

\* the number of daily buckets of the engine's table: the calendar days from
\* its earliest date to its latest, both included, and none for no rows
Buckets ==
    IF engine_df[1] = <<>> THEN 0
    ELSE LET days == {engine_df[1][i].Data : i \in DOMAIN engine_df[1]}
         IN  (CHOOSE d \in days : \A e \in days : e <= d)
             - (CHOOSE d \in days : \A e \in days : d <= e) + 1

\* the latest date of the engine's table
LastDay ==
    CHOOSE d \in {engine_df[1][i].Data : i \in DOMAIN engine_df[1]} :
        \A i \in DOMAIN engine_df[1] : engine_df[1][i].Data <= d

\* C11: whenever the daily series has fewer than 7 buckets, the empty table
\* included, prever_proximos_dias returns the insufficient-data sentinel: a
\* result with the key 'erro' and no numeric projection.
C11_ShortSeriesInsufficient ==
    (previsao # None /\ Buckets < 7) => DOMAIN previsao[1].result = {"erro"}

\* a forecast asked of a series of 6 buckets
C11_Witness ==
    /\ previsao # None
    /\ Buckets = 6
    /\ "erro" \in DOMAIN previsao[1].result

\* C16: when the daily series has at least 7 buckets, prever_proximos_dias(dias)
\* returns exactly dias projections, on the consecutive days after the last
\* bucket; each has the same predicted value, the mean net flow of the trailing
\* min(30, n) buckets, with its lower and upper bounds equally far below and
\* above it; and saldo_previsto_final is the last cumulative balance plus that
\* mean times dias.
C16_ForecastIsTrailingMean ==
    (previsao # None /\ Buckets >= 7) =>
        LET t == engine_df[1]
            r == previsao[1].result
            dias == previsao[1].dias
            k == IF Buckets < 30 THEN Buckets ELSE 30
            recent == SumAt(t, "ValorComSinal", Where(t, LAMBDA x : x.Data > LastDay - k))
            balance == SumAt(t, "ValorComSinal", DOMAIN t)
        IN  /\ "erro" \notin DOMAIN r
            /\ Len(r.previsao_diaria) = dias
            /\ \A j \in 1..dias :
                    LET p == r.previsao_diaria[j]
                    IN  /\ p.Data = LastDay + j
                        /\ p.Previsto.den # 0
                        /\ p.Previsto.num * k = recent * p.Previsto.den
                        /\ p.LimiteInferior.media = p.Previsto
                        /\ p.LimiteSuperior.media = p.Previsto
                        /\ p.LimiteSuperior.times > 0
                        /\ p.LimiteInferior.times = 0 - p.LimiteSuperior.times
                        /\ p.LimiteInferior.std2 = p.LimiteSuperior.std2
            /\ r.saldo_previsto_final.den # 0
            /\ r.saldo_previsto_final.num * k
                    = (balance * k + recent * dias) * r.saldo_previsto_final.den

\* the default horizon asked of a series of 32 buckets whose first day, left
\* out of the trailing 30, has a net flow
C16_Witness ==
    /\ previsao # None
    /\ Buckets = 32
    /\ previsao[1].dias = 30
    /\ Len(previsao[1].result.previsao_diaria) = 30
    /\ \E i \in DOMAIN engine_df[1] : engine_df[1][i].Data = LastDay - 31

\* the titles of the returned insights
InsightTitles == {insights[1][i].titulo : i \in DOMAIN insights[1]}

\* C17: the insights come by priority, high first: no insight of prioridade
\* 'Media' or 'Baixa' precedes one of prioridade 'Alta', also for tables with
\* pending debt.
C17_InsightsHighFirst ==
    insights # None =>
        \A i, j \in DOMAIN insights[1] :
            (i < j /\ insights[1][j].prioridade = "Alta")
                => insights[1][i].prioridade = "Alta"

\* C18: generate_insights returns at most 4 insights; the trend insight is in
\* every result and the largest-category insight in every result on a table
\* that has rows; and the cap removes nothing: every insight a rule produced
\* is returned.
C18_AtMostFourNothingCut ==
    insights # None =>
        LET t == engine_df[1]
            income == SumAt(t, "Valor", Where(t, IsEntrada))
            expense == SumAt(t, "Valor", Where(t, IsSaida))
            unpaid == SumAt(t, "Valor", Where(t, IsNaoPago))
            critical == IF income > 0 THEN (income - expense) * 100 < 10 * income ELSE TRUE
            great == income > 0 /\ (income - expense) * 100 > 30 * income
        IN  /\ Len(insights[1]) <= 4
            /\ "Tendência Financeira" \in InsightTitles
            /\ t # <<>> <=> "Maior Despesa" \in InsightTitles
            /\ critical <=> "Economia Crítica" \in InsightTitles
            /\ great <=> "Ótima Economia" \in InsightTitles
            /\ unpaid > 0 <=> "Dívidas em Aberto" \in InsightTitles
            /\ Cardinality(InsightTitles) = Len(insights[1])

\* four insights returned, the debt insight last
C18_Witness ==
    /\ insights # None
    /\ Len(insights[1]) = 4
    /\ insights[1][4].titulo = "Dívidas em Aberto"

\* C19: filtering never mutates the base table and always yields a new
\* table: whatever its arguments, none set included, filter_data returns a
\* table object that is not the loader's cached table and leaves the cached
\* table as it was; and update_dashboard leaves the module-level base table
\* as it was.
C19_FilterYieldsNewTable ==
    [][/\ filtered' # None => filtered'[1].object = "new"
       /\ (filtered' # filtered /\ _df # None) => _df' = _df
       /\ df # None => df' = df]_vars

\* a table as load() builds it: every row has the derived columns, a parsed
\* date, and the running balance of the rows up to it
IsBuiltTable(t) ==
    \A i \in DOMAIN t :
        /\ DOMAIN t[i] = {"Data", "Categoria", "Codigo", "CategoriaDisplay", "CategoriaCor",
                          "Tipo", "Pago_ou_nao_pago", "Valor",
                          "ValorComSinal", "SaldoAcumulado"}
        /\ t[i].Data # Unparsable
        /\ t[i].SaldoAcumulado = SumAt(t, "ValorComSinal", 1..i)

\* the file at filepath cannot be loaded
Unloadable == ~file_exists \/ \E i \in DOMAIN file : file[i].Data = Unparsable

\* C20: a load that fails (no file, a date column that cannot be parsed)
\* reports an error to its caller and leaves the cached table as it was before
\* the call, None when nothing was loaded and the last complete table on a
\* force_reload; a load that reports no error returns a complete table; and
\* the cached table is never a partly built one.
C20_FailedLoadKeepsCache ==
    [][/\ (load_outcome' # None /\ load_outcome'[1].raised # None) => _df' = _df
       /\ (Unloadable /\ _df = None /\ load_outcome' # load_outcome)
            => load_outcome'[1].raised # None
       /\ (load_outcome' # None /\ load_outcome'[1].raised = None)
            => /\ load_outcome'[1].returned # None
               /\ IsBuiltTable(load_outcome'[1].returned[1])
       /\ _df' # None => IsBuiltTable(_df'[1])]_vars

\* a force_reload that failed on a replaced file, the table of the load before
\* it still cached
C20_Witness ==
    /\ _df # None
    /\ _df[1] # <<>>
    /\ Unloadable
    /\ load_outcome # None
    /\ load_outcome[1].raised # None

\* the row load() is to make of the raw row r: the amount 0 when it is missing
\* or not a number, 'Não Informado' for a missing text, the default display
\* and colour for a code CATEGORIAS_MAP does not have, everything else as read
Repaired(r) ==
    [Data |-> r.Data,
     Categoria |-> IF r.Categoria = NaN THEN "Não Informado" ELSE r.Categoria,
     Tipo |-> IF r.Tipo = NaN THEN "Não Informado" ELSE r.Tipo,
     Pago_ou_nao_pago |-> IF r.Pago_ou_nao_pago = NaN THEN "Não Informado"
                          ELSE r.Pago_ou_nao_pago,
     Valor |-> IF r.Valor = None THEN 0 ELSE r.Valor[1],
     Codigo |-> r.Codigo[1],
     CategoriaDisplay |-> IF r.Codigo[1] = 8888 THEN <<"fuel pump", "Gasolina">>
                          ELSE <<"pushpin", "Outros">>,
     CategoriaCor |-> IF r.Codigo[1] = 8888 THEN "#F59E0B" ELSE "#6B7280"]

\* the columns of a built row that Repaired gives
AsRead(b) ==
    [Data |-> b.Data, Categoria |-> b.Categoria, Tipo |-> b.Tipo,
     Pago_ou_nao_pago |-> b.Pago_ou_nao_pago, Valor |-> b.Valor, Codigo |-> b.Codigo,
     CategoriaDisplay |-> b.CategoriaDisplay, CategoriaCor |-> b.CategoriaCor]

\* the lines of the file that are not a line of separators only
NonEmptyLines == {i \in DOMAIN file : file[i] # EmptyRow}

\* every non-empty line of the file has a category code
EveryLineHasCodigo == \A i \in NonEmptyLines : file[i].Codigo # None

C22_OperationsChangeNothing ==
    [][/\ engine_df' = engine_df
       /\ _df' = _df
       /\ df' = df
       /\ kpis # None => kpis' = kpis
       /\ alertas # None => alertas' = alertas
       /\ trend # None => trend' = trend
       /\ anomalias # None => anomalias' = anomalias
       /\ previsao # None => previsao' = previsao
       /\ insights # None => insights' = insights]_vars

\* every operation has returned, the forecast with projections
C22_Witness ==
    /\ engine_df # None
    /\ engine_df[1] # <<>>
    /\ kpis # None
    /\ alertas # None
    /\ trend # None
    /\ anomalias # None
    /\ previsao # None
    /\ previsao[1].result # DadosInsuficientes
    /\ insights # None

\* C23: a refresh builds a complete new table and replaces the loader's
\* reference in one step.  The loader's table changes only in the step that
\* ends a load, from one complete table to the complete table that load has
\* built; a reader that asks at any point of a refresh gets the loader's table of
\* that moment, a complete one; and the table a reader holds does not change
\* while the refresh goes on.
C23_RefreshSwapsCompleteTables ==
    [][/\ _df' # _df =>
            /\ loading # None
            /\ loading[1].pc = "_add_calculated_columns"
            /\ loading' = None
            /\ _df' = Some(loading[1].df)
       /\ _df' # None /\ IsBuiltTable(_df'[1])
       /\ reader_df' # reader_df => reader_df' = _df
       /\ reader_df' # None => IsBuiltTable(reader_df'[1])]_vars

\* a reader has got the old table while the refresh holds the cleaned rows of
\* a file of another length
C23_Witness ==
    /\ loading # None
    /\ loading[1].pc = "_clean_data"
    /\ reader_df # None
    /\ reader_df = _df
    /\ Len(loading[1].df) # Len(_df[1])

RECURSIVE StableByData(_)
\* the raw rows by date ascending, rows of one date in their order in rows
StableByData(rows) ==
    IF rows = <<>> THEN <<>>
    ELSE LET i == CHOOSE k \in DOMAIN rows :
                    /\ \A j \in DOMAIN rows : rows[k].Data <= rows[j].Data
                    /\ \A j \in 1..(k - 1) : rows[j].Data > rows[k].Data
         IN  <<rows[i]>> \o StableByData(SubSeq(rows, 1, i - 1) \o SubSeq(rows, i + 1, Len(rows)))

\* the non-empty lines of the file, in file order
NonEmptyRows == LET Keep(r) == r # EmptyRow IN SelectSeq(file, Keep)

\* C24: the built table has the rows of the file by date ascending, two rows
\* of one date in their order in the file, and the running balance of each row
\* is the sum of the signed amounts accumulated in that order.
C24_EqualDatesKeepInputOrder ==
    _df # None =>
        LET expected == StableByData(NonEmptyRows)
            Signed(r) == IF Repaired(r).Tipo = "Entrada" THEN Repaired(r).Valor
                         ELSE -Repaired(r).Valor
        IN  /\ Len(_df[1]) = Len(expected)
            /\ \A k \in DOMAIN expected :
                  /\ AsRead(_df[1][k]) = Repaired(expected[k])
                  /\ _df[1][k].SaldoAcumulado
                       = SumSeq([j \in 1..k |-> Signed(expected[j])])

\* twice the temporal midpoint of the engine's table: min date + max date
TwiceMidpoint == MinData(engine_df[1]) + MaxData(engine_df[1])

\* the sums of the rows of one kind before the midpoint, and on or after it
FirstPeriod(tipo) ==
    LET Test(r) == r.Tipo = tipo /\ 2 * r.Data < TwiceMidpoint
    IN  SumAt(engine_df[1], "Valor", Where(engine_df[1], Test))
SecondPeriod(tipo) ==
    LET Test(r) == r.Tipo = tipo /\ 2 * r.Data >= TwiceMidpoint
    IN  SumAt(engine_df[1], "Valor", Where(engine_df[1], Test))

\* the percent delta the claim gives the rows of one kind
PercentDelta(tipo) ==
    IF engine_df[1] = <<>> THEN RInt(0)
    ELSE IF FirstPeriod(tipo) = 0 THEN RInt(0)
    ELSE Rat((SecondPeriod(tipo) - FirstPeriod(tipo)) * 100, FirstPeriod(tipo))

\* C25: _calcular_variacao_periodo splits the rows of one kind at the temporal
\* midpoint, min date + half the span: rows dated strictly before it are the
\* first period, rows on or after it the second; variacao_pct is
\* (second - first) / first * 100, and 0 when the first-period sum is 0 (all
\* rows of one date and the empty table included).  get_kpis gives it for the
\* incomes (receitas) and the expenses (despesas).
C25_VariationSplitsAtMidpoint ==
    kpis # None =>
        /\ kpis[1].receitas.variacao_pct = Some(PercentDelta("Entrada"))
        /\ kpis[1].despesas.variacao_pct = Some(PercentDelta("Saída"))

\* incomes on the first day, on the midpoint and on the last day: the one of
\* the midpoint counts in the second period, and the delta is 100 %
C25_Witness ==
    /\ kpis # None
    /\ Len(engine_df[1]) = 3
    /\ \A i \in 1..3 : engine_df[1][i].Data = i /\ engine_df[1][i].Tipo = "Entrada"
    /\ FirstPeriod("Entrada") = 100
    /\ SecondPeriod("Entrada") = 200
    /\ kpis[1].receitas.variacao_pct = Some(RInt(100))

\* the number of daily buckets of the engine's table
NumBuckets ==
    IF engine_df[1] = <<>> THEN 0 ELSE MaxData(engine_df[1]) - MinData(engine_df[1]) + 1

\* C26: get_tendencia labels the fitted slope by the intervals of the spec:
\* 'alta_forte' iff slope > 10, 'alta_leve' iff 0 < slope <= 10, 'baixa_leve'
\* iff -10 <= slope < 0 (a slope of exactly -10 is 'baixa_leve'), 'baixa_forte'
\* iff slope < -10; and a series of fewer than 2 buckets gives 'insuficiente'.
C26_SlopeLabelledBySpecIntervals ==
    trend # None =>
        IF NumBuckets < 2 THEN trend[1].direcao = "insuficiente"
        ELSE LET slope == trend[1].slope
                 direcao == trend[1].direcao
             IN  /\ direcao = "alta_forte" <=> RLt(RInt(10), slope)
                 /\ direcao = "alta_leve" <=> RLt(RInt(0), slope) /\ ~RLt(RInt(10), slope)
                 /\ direcao = "baixa_leve" <=> ~RLt(slope, RInt(-10)) /\ RLt(slope, RInt(0))
                 /\ direcao = "baixa_forte" <=> RLt(slope, RInt(-10))

\* the income and the expenses of the engine's table, summed line by line
Income == SumSeq([i \in DOMAIN engine_df[1] |->
                    IF engine_df[1][i].Tipo = "Entrada" THEN engine_df[1][i].Valor ELSE 0])
Expense == SumSeq([i \in DOMAIN engine_df[1] |->
                     IF engine_df[1][i].Tipo = "Saída" THEN engine_df[1][i].Valor ELSE 0])

\* savings_rate < 10, the rate being 0 without income
SavingsBelow10 == IF Income > 0 THEN (Income - Expense) * 100 < 10 * Income ELSE TRUE

\* savings_rate > 30
SavingsAbove30 == Income > 0 /\ (Income - Expense) * 100 > 30 * Income

\* C27: generate_insights emits 'Economia Crítica' exactly when the savings
\* rate is below 10 and 'Ótima Economia' exactly when it is above 30, so
\* nothing about the rate inside the band 10..30 and never both
C27_SavingsInsightOutsideBand ==
    insights # None =>
        /\ "Economia Crítica" \in InsightTitles <=> SavingsBelow10
        /\ "Ótima Economia" \in InsightTitles <=> SavingsAbove30
        /\ ~({"Economia Crítica", "Ótima Economia"} \subseteq InsightTitles)

\* insights generated for a savings rate of exactly 10: no savings insight
C27_Witness ==
    /\ insights # None
    /\ Income > 0
    /\ (Income - Expense) * 100 = 10 * Income
    /\ InsightTitles \cap {"Economia Crítica", "Ótima Economia"} = {}

\* C28: at the default threshold detectar_anomalias flags no transaction of a
\* category of 3, 4 or 5 transactions (nor of fewer): every flagged
\* transaction belongs to a category of at least 6.
C28_FlagNeedsSixTransactions ==
    (anomalias # None /\ anomalias[1].threshold = DefaultThreshold) =>
        \A k \in DOMAIN anomalias[1].flagged :
            Cardinality(RowsOf(anomalias[1].flagged[k].row.Categoria)) >= 6

\* a transaction flagged at the default threshold in a category of exactly 6
C28_Witness ==
    /\ anomalias # None
    /\ anomalias[1].threshold = DefaultThreshold
    /\ anomalias[1].flagged # <<>>
    /\ Cardinality(RowsOf(anomalias[1].flagged[1].row.Categoria)) = 6

\* the alerts of prioridade 'alta' last returned, by position
AltaAlerts == {i \in DOMAIN alertas[1] : alertas[1][i].prioridade = "alta"}

\* C29: get_alertas returns at most 5 alerts, at most 2 of them of prioridade
\* 'alta', and each of those has its card among the dashboard's cards, which
\* are made of the first 3 alerts only.
C29_TruncationKeepsHighPriority ==
    alertas # None =>
        /\ Len(alertas[1]) <= 5
        /\ Cardinality(AltaAlerts) <= 2
        /\ \A i \in AltaAlerts :
                \E c \in DOMAIN alert_cards(alertas[1]) :
                    alert_cards(alertas[1])[c] = create_alert(alertas[1][i])

\* five alerts returned, two of them 'alta', three cards shown
C29_Witness ==
    /\ alertas # None
    /\ Len(alertas[1]) = 5
    /\ Cardinality(AltaAlerts) = 2
    /\ Len(alert_cards(alertas[1])) = 3

\* C30: once a table is cached, load() without force_reload, get_summary() and
\* filter_data() leave it in place and load hands back that very table without
\* raising, whatever the file has become; a step that replaces the cached
\* table is a load(force_reload=True); and once get_data_loader() has made the
\* instance, the module keeps it.
C30_CacheServedUntilForcedReload ==
    [][/\ (_df # None /\ (Load(FALSE) \/ GetSummary \/ SomeFilterData)) =>
            /\ _df' = _df
            /\ load_outcome' = Some([raised |-> None, returned |-> _df])
       /\ (_df # None /\ _df' # _df) => Load(TRUE)
       /\ _data_loader # None => _data_loader' = _data_loader
       /\ GetDataLoader => _data_loader' # None]_vars

\* a table cached and handed back by a call without force_reload while the
\* file holds other rows, with the singleton made
C30_Witness ==
    /\ _df # None
    /\ load_outcome = Some([raised |-> None, returned |-> _df])
    /\ _df \notin {Some(t) : t \in built_tables(file)}
    /\ filtered # None
    /\ _data_loader # None

====
